---- MODULE Spec2Model ----
(***************************************************************************)
(* Model of the three example programs of the repository:                  *)
(*   - example-server-spotify/spotify_mcp_server.py   (four tool wrappers) *)
(*   - example-client-spotify/spotify_langchain_client.py (discovery and   *)
(*     per-call connections, response records)                             *)
(*   - mcp-tutorial/.../lifespan_example.py            (lifespan resource) *)
(*                                                                         *)
(* Python strings are sequences of one-character strings, so that          *)
(* formatting, prefix and substring questions are decided on the text the  *)
(* code builds.  Python values that the code tests for truthiness or       *)
(* subscripts are tagged records (PyNone, PyDict, PyList).                 *)
(***************************************************************************)
EXTENDS Integers, Sequences, FiniteSets, TLC

VARIABLES
  op,        \* server: name of the tool operation last invoked ("none" at start)
  args,      \* server: its arguments
  apiLog,    \* server: the outbound API calls of that invocation, in order, with their outcomes
  ret,       \* server: what the invocation gave its caller (a returned string or a propagated exception)
  built,     \* response record: the arguments and the outcome of the last MCPToolResponse(...) construction
  catalog,   \* client: tools declared by the server in list_tools()
  disc,      \* client: state of discover_mcp_tools (pc, loop index, langchain_tools, its connection)
  conns,     \* client: every transport connection ever opened, by id
  calls,     \* client: the wrapped-callable invocations, by slot
  life,      \* lifespan example: server run (pc, database handle, requests, counters)
  boot       \* start-up: the environment, main()'s position and configuration, the server module's load

vars == <<op, args, apiLog, ret, built, catalog, disc, conns, calls, life, boot>>

serverVars == <<op, args, apiLog, ret>>
clientVars == <<catalog, disc, conns, calls>>

-----------------------------------------------------------------------------
(* Bounds of the model *)

MaxTracks == 2
MaxTopTracks == 6

-----------------------------------------------------------------------------
(* Python strings as character sequences *)

Lit(s) ==
  CASE s = "No results found for track name: '" -> <<"N","o"," ","r","e","s","u","l","t","s"," ","f","o","u","n","d"," ","f","o","r"," ","t","r","a","c","k"," ","n","a","m","e",":"," ","'">>
    [] s = "'" -> <<"'">>
    [] s = "Found " -> <<"F","o","u","n","d"," ">>
    [] s = " tracks:\n\n" -> <<" ","t","r","a","c","k","s",":","\n","\n">>
    [] s = ". " -> <<"."," ">>
    [] s = " by " -> <<" ","b","y"," ">>
    [] s = "\n" -> <<"\n">>
    [] s = "   Album: " -> <<" "," "," ","A","l","b","u","m",":"," ">>
    [] s = "   Track ID: " -> <<" "," "," ","T","r","a","c","k"," ","I","D",":"," ">>
    [] s = "   URI: " -> <<" "," "," ","U","R","I",":"," ">>
    [] s = "   Preview: " -> <<" "," "," ","P","r","e","v","i","e","w",":"," ">>
    [] s = "\n\n" -> <<"\n","\n">>
    [] s = ", " -> <<","," ">>
    [] s = "N/A" -> <<"N","/","A">>
    [] s = "None" -> <<"N","o","n","e">>
    [] s = "Spotify API error: " -> <<"S","p","o","t","i","f","y"," ","A","P","I"," ","e","r","r","o","r",":"," ">>
    [] s = " (Status: " -> <<" ","(","S","t","a","t","u","s",":"," ">>
    [] s = ")" -> <<")">>
    [] s = "Unexpected error: " -> <<"U","n","e","x","p","e","c","t","e","d"," ","e","r","r","o","r",":"," ">>
    [] s = "No artist found with name: '" -> <<"N","o"," ","a","r","t","i","s","t"," ","f","o","u","n","d"," ","w","i","t","h"," ","n","a","m","e",":"," ","'">>
    [] s = "Could not retrieve details for artist: '" -> <<"C","o","u","l","d"," ","n","o","t"," ","r","e","t","r","i","e","v","e"," ","d","e","t","a","i","l","s"," ","f","o","r"," ","a","r","t","i","s","t",":"," ","'">>
    [] s = "Could not retrieve top tracks for artist: '" -> <<"C","o","u","l","d"," ","n","o","t"," ","r","e","t","r","i","e","v","e"," ","t","o","p"," ","t","r","a","c","k","s"," ","f","o","r"," ","a","r","t","i","s","t",":"," ","'">>
    [] s = "Artist: " -> <<"A","r","t","i","s","t",":"," ">>
    [] s = "Popularity: " -> <<"P","o","p","u","l","a","r","i","t","y",":"," ">>
    [] s = "/100\n" -> <<"/","1","0","0","\n">>
    [] s = "Followers: " -> <<"F","o","l","l","o","w","e","r","s",":"," ">>
    [] s = "Genres: " -> <<"G","e","n","r","e","s",":"," ">>
    [] s = "Spotify URI: " -> <<"S","p","o","t","i","f","y"," ","U","R","I",":"," ">>
    [] s = "Top Tracks:\n" -> <<"T","o","p"," ","T","r","a","c","k","s",":","\n">>
    [] s = " - " -> <<" ","-"," ">>
    [] s = "No audio features found for track ID: '" -> <<"N","o"," ","a","u","d","i","o"," ","f","e","a","t","u","r","e","s"," ","f","o","u","n","d"," ","f","o","r"," ","t","r","a","c","k"," ","I","D",":"," ","'">>
    [] s = "Could not retrieve track information for ID: '" -> <<"C","o","u","l","d"," ","n","o","t"," ","r","e","t","r","i","e","v","e"," ","t","r","a","c","k"," ","i","n","f","o","r","m","a","t","i","o","n"," ","f","o","r"," ","I","D",":"," ","'">>
    [] s = "Audio Features for: " -> <<"A","u","d","i","o"," ","F","e","a","t","u","r","e","s"," ","f","o","r",":"," ">>
    [] s = "Tempo: " -> <<"T","e","m","p","o",":"," ">>
    [] s = " BPM\n" -> <<" ","B","P","M","\n">>
    [] s = "Key: " -> <<"K","e","y",":"," ">>
    [] s = " (0=C, 1=C#, 2=D, etc.)\n" -> <<" ","(","0","=","C",","," ","1","=","C","#",","," ","2","=","D",","," ","e","t","c",".",")","\n">>
    [] s = "Mode: " -> <<"M","o","d","e",":"," ">>
    [] s = "Major" -> <<"M","a","j","o","r">>
    [] s = "Minor" -> <<"M","i","n","o","r">>
    [] s = "Time Signature: " -> <<"T","i","m","e"," ","S","i","g","n","a","t","u","r","e",":"," ">>
    [] s = "/4\n" -> <<"/","4","\n">>
    [] s = "Duration: " -> <<"D","u","r","a","t","i","o","n",":"," ">>
    [] s = " seconds\n\n" -> <<" ","s","e","c","o","n","d","s","\n","\n">>
    [] s = "Musical Characteristics (0.0 to 1.0):\n" -> <<"M","u","s","i","c","a","l"," ","C","h","a","r","a","c","t","e","r","i","s","t","i","c","s"," ","(","0",".","0"," ","t","o"," ","1",".","0",")",":","\n">>
    [] s = "  Danceability: " -> <<" "," ","D","a","n","c","e","a","b","i","l","i","t","y",":"," ">>
    [] s = "  Energy: " -> <<" "," ","E","n","e","r","g","y",":"," ">>
    [] s = "  Speechiness: " -> <<" "," ","S","p","e","e","c","h","i","n","e","s","s",":"," ">>
    [] s = "  Acousticness: " -> <<" "," ","A","c","o","u","s","t","i","c","n","e","s","s",":"," ">>
    [] s = "  Instrumentalness: " -> <<" "," ","I","n","s","t","r","u","m","e","n","t","a","l","n","e","s","s",":"," ">>
    [] s = "  Liveness: " -> <<" "," ","L","i","v","e","n","e","s","s",":"," ">>
    [] s = "  Valence (positivity): " -> <<" "," ","V","a","l","e","n","c","e"," ","(","p","o","s","i","t","i","v","i","t","y",")",":"," ">>
    [] s = "  Loudness: " -> <<" "," ","L","o","u","d","n","e","s","s",":"," ">>
    [] s = " dB\n" -> <<" ","d","B","\n">>
    [] s = "Please provide at least one track ID" -> <<"P","l","e","a","s","e"," ","p","r","o","v","i","d","e"," ","a","t"," ","l","e","a","s","t"," ","o","n","e"," ","t","r","a","c","k"," ","I","D">>
    [] s = "No recommendations found for the given tracks" -> <<"N","o"," ","r","e","c","o","m","m","e","n","d","a","t","i","o","n","s"," ","f","o","u","n","d"," ","f","o","r"," ","t","h","e"," ","g","i","v","e","n"," ","t","r","a","c","k","s">>
    [] s = "Recommendations based on " -> <<"R","e","c","o","m","m","e","n","d","a","t","i","o","n","s"," ","b","a","s","e","d"," ","o","n"," ">>
    [] s = " seed track(s):\n\n" -> <<" ","s","e","e","d"," ","t","r","a","c","k","(","s",")",":","\n","\n">>
    [] s = "   Popularity: " -> <<" "," "," ","P","o","p","u","l","a","r","i","t","y",":"," ">>
    [] s = "/100\n\n" -> <<"/","1","0","0","\n","\n">>
    [] s = "list index out of range" -> <<"l","i","s","t"," ","i","n","d","e","x"," ","o","u","t"," ","o","f"," ","r","a","n","g","e">>
    [] s = "." -> <<".">>


Digit(d) ==
  CASE d = 0 -> "0" [] d = 1 -> "1" [] d = 2 -> "2" [] d = 3 -> "3" [] d = 4 -> "4"
    [] d = 5 -> "5" [] d = 6 -> "6" [] d = 7 -> "7" [] d = 8 -> "8" [] d = 9 -> "9"

RECURSIVE NatToStr(_)
NatToStr(n) == IF n < 10 THEN <<Digit(n)>> ELSE NatToStr(n \div 10) \o <<Digit(n % 10)>>

\* str(n) / f"{n}" of a Python int
IntToStr(n) == IF n < 0 THEN <<"-">> \o NatToStr(-n) ELSE NatToStr(n)

Pad3(n) == <<Digit(n \div 100), Digit((n \div 10) % 10), Digit(n % 10)>>

\* f"{n:,}" of a non-negative Python int: groups of three digits separated by ","
RECURSIVE NatToStrComma(_)
NatToStrComma(n) ==
  IF n < 1000 THEN NatToStr(n) ELSE NatToStrComma(n \div 1000) \o <<",">> \o Pad3(n % 1000)

\* ', '.join(parts)
RECURSIVE Join(_, _)
Join(sep, parts) ==
  IF Len(parts) = 0 THEN <<>>
  ELSE IF Len(parts) = 1 THEN parts[1]
  ELSE parts[1] \o sep \o Join(sep, Tail(parts))

IsPrefix(p, s) == Len(p) <= Len(s) /\ SubSeq(s, 1, Len(p)) = p

\* Python's  sub in s
Contains(s, sub) ==
  \E i \in 1..(Len(s) - Len(sub) + 1) : SubSeq(s, i, i + Len(sub) - 1) = sub

\* s.strip() for the whitespace the model uses (the space)
RECURSIVE LStrip(_)
LStrip(s) == IF Len(s) > 0 /\ s[1] = " " THEN LStrip(Tail(s)) ELSE s
RECURSIVE RStrip(_)
RStrip(s) == IF Len(s) > 0 /\ s[Len(s)] = " " THEN RStrip(SubSeq(s, 1, Len(s) - 1)) ELSE s
Strip(s) == RStrip(LStrip(s))

\* s.split(c): always at least one part
RECURSIVE SplitAcc(_, _, _)
SplitAcc(s, c, cur) ==
  IF Len(s) = 0 THEN <<cur>>
  ELSE IF s[1] = c THEN <<cur>> \o SplitAcc(Tail(s), c, <<>>)
  ELSE SplitAcc(Tail(s), c, Append(cur, s[1]))
Split(s, c) == SplitAcc(s, c, <<>>)

\* seq[:n]
Take(seq, n) == SubSeq(seq, 1, IF Len(seq) < n THEN Len(seq) ELSE n)

Min(a, b) == IF a <= b THEN a ELSE b

-----------------------------------------------------------------------------
(* Python values *)

PyNone == [t |-> "None"]
PyDict(f) == [t |-> "dict", v |-> f]
PyList(s) == [t |-> "list", v |-> s]
PyStr(s) == [t |-> "str", v |-> s]
EmptyMap == [k \in {} |-> PyNone]

\* bool(x)
Truthy(x) ==
  CASE x.t = "None" -> FALSE
    [] x.t = "dict" -> DOMAIN x.v # {}
    [] x.t = "list" -> Len(x.v) > 0
    [] x.t = "str"  -> Len(x.v) > 0

HasKey(d, k) == k \in DOMAIN d.v
\* d.get(k)
Get(d, k) == IF HasKey(d, k) THEN d.v[k] ELSE PyNone
\* f"{x}" of a str or None
Fmt(x) == IF x.t = "None" THEN Lit("None") ELSE x.v

\* Exceptions: the class, and what str(e), e.msg and e.http_status give
SpotifyException(status, msg) ==
  [cls |-> "SpotifyException", text |-> msg, msg |-> msg, http_status |-> status]
OtherException(cls, text) ==
  [cls |-> cls, text |-> text, msg |-> <<>>, http_status |-> 0]
\* str(KeyError(k)) is repr(k)
KeyError(k) == OtherException("KeyError", <<"'">> \o k \o <<"'">>)

Return(v) == [kind |-> "return", value |-> v]
Raise(e) == [kind |-> "raise", exc |-> e]
ApiOk(v) == [kind |-> "ok", value |-> v]
ApiRaise(e) == [kind |-> "raise", exc |-> e]

PyInt(n) == [t |-> "int", v |-> n]

-----------------------------------------------------------------------------
(* The music API as the server sees it: every outbound call either raises   *)
(* or returns a value; the model lets each call take any of these outcomes. *)

Queries == { <<>>, <<"Q">>, <<"e","r","r","o","r">> }

Limits == { -1, 0, 1, 10, 49, 50, 51, 99, 100, 101, 1000 }

ApiErrors ==
  { SpotifyException(401, <<"b","a","d">>),
    SpotifyException(429, <<>>),
    OtherException("ConnectionError", <<"d","o","w","n">>),
    OtherException("Exception", <<>>) }

Artist(n) == PyDict([name |-> PyStr(n)])

Track(name, artists, album, id, preview, pop) ==
  LET base == [name |-> PyStr(name), artists |-> PyList(artists),
               album |-> PyDict([name |-> PyStr(album)]),
               uri |-> PyStr(<<"u",":">> \o id), id |-> PyStr(id),
               popularity |-> PyInt(pop)]
  IN PyDict(IF preview = "absent" THEN base
            ELSE IF preview = "null" THEN base @@ [preview_url |-> PyNone]
            ELSE base @@ [preview_url |-> PyStr(<<"p","/">> \o id)])

TrackA == Track(<<"B","o">>, <<Artist(<<"Q">>)>>, <<"N","O">>, <<"1","a">>, "null", 80)
TrackB == Track(<<"R","a">>, <<Artist(<<"Q">>), Artist(<<"D","B">>)>>, <<"X">>, <<"2","b">>, "url", 5)
TrackC == Track(<<"Z">>, <<>>, <<"Y","Y">>, <<"3">>, "absent", 100)
Tracks == { TrackA, TrackB, TrackC }

TrackLists == UNION { [1..n -> Tracks] : n \in 1..MaxTracks }

\* what sp.search(q, type='track', limit) can give
SearchTrackResponses ==
  { ApiRaise(e) : e \in ApiErrors }
  \cup { ApiOk(PyNone), ApiOk(PyDict(EmptyMap)),
         ApiOk(PyDict([artists |-> PyDict([items |-> PyList(<<>>)])])),
         ApiOk(PyDict([tracks |-> PyNone])),
         ApiOk(PyDict([tracks |-> PyDict(EmptyMap)])),
         ApiOk(PyDict([tracks |-> PyDict([total |-> PyInt(0)])])),
         ApiOk(PyDict([tracks |-> PyDict([items |-> PyNone])])),
         ApiOk(PyDict([tracks |-> PyDict([items |-> PyList(<<>>)])])) }
  \cup { ApiOk(PyDict([tracks |-> PyDict([items |-> PyList(l)])])) : l \in TrackLists }

ApiCall(api, a, resp) == [api |-> api, args |-> a, resp |-> resp]

-----------------------------------------------------------------------------
(* search_tracks *)

\* A variant that names only the first artist of an item
track_info_first_artist(item) ==
  [name |-> item.v.name.v,
   artist |-> IF Len(item.v.artists.v) = 0 THEN <<>> ELSE item.v.artists.v[1].v.name.v,
   album |-> item.v.album.v.name.v,
   uri |-> item.v.uri.v,
   id |-> item.v.id.v,
   preview_url |-> IF HasKey(item, "preview_url") THEN item.v.preview_url ELSE PyStr(Lit("N/A"))]

\* lines 42-49: the dict built for one item
track_info(item) ==
  [name |-> item.v.name.v,
   artist |-> Join(Lit(", "), [i \in 1..Len(item.v.artists.v) |-> item.v.artists.v[i].v.name.v]),
   album |-> item.v.album.v.name.v,
   uri |-> item.v.uri.v,
   id |-> item.v.id.v,
   preview_url |-> IF HasKey(item, "preview_url") THEN item.v.preview_url ELSE PyStr(Lit("N/A"))]

\* lines 54-58: the text of entry i
track_entry(i, track) ==
  IntToStr(i) \o Lit(". ") \o track.name \o Lit(" by ") \o track.artist \o Lit("\n")
  \o Lit("   Album: ") \o track.album \o Lit("\n")
  \o Lit("   Track ID: ") \o track.id \o Lit("\n")
  \o Lit("   URI: ") \o track.uri \o Lit("\n")
  \o Lit("   Preview: ") \o Fmt(track.preview_url) \o Lit("\n\n")

\* lines 53-58: for i, track in enumerate(tracks, 1): output += ...
RECURSIVE track_entries(_, _)
track_entries(tracks, i) ==
  IF i > Len(tracks) THEN <<>>
  ELSE track_entry(i, tracks[i]) \o track_entries(tracks, i + 1)

\* lines 40-60
format_tracks(items) ==
  LET tracks == [i \in 1..Len(items) |-> track_info(items[i])]
  IN Lit("Found ") \o IntToStr(Len(tracks)) \o Lit(" tracks:\n\n") \o track_entries(tracks, 1)

search_not_found(query) == Lit("No results found for track name: '") \o query \o Lit("'")

\* A variant that forwards the limit as given
search_limit_unclamped(limit) == limit

\* min(limit, 50)
search_limit(limit) == Min(limit, 50)

\* lines 36-60: the body of the try, given the outcome r1 of sp.search
search_tracks_try(query, limit, r1) ==
  IF r1.kind = "raise" THEN Raise(r1.exc)
  ELSE LET results == r1.value IN
    IF ~Truthy(results) THEN Return(search_not_found(query))
    ELSE IF ~Truthy(Get(results, "tracks")) THEN Return(search_not_found(query))
    ELSE IF ~HasKey(results.v.tracks, "items") THEN Raise(KeyError(<<"i","t","e","m","s">>))
    ELSE IF ~Truthy(results.v.tracks.v.items) THEN Return(search_not_found(query))
    ELSE Return(format_tracks(results.v.tracks.v.items.v))

\* lines 62-65: the except clauses
search_tracks_except(out) ==
  IF out.kind # "raise" THEN out
  ELSE IF out.exc.cls = "SpotifyException"
  THEN Return(Lit("Spotify API error: ") \o out.exc.msg \o Lit(" (Status: ")
              \o IntToStr(out.exc.http_status) \o Lit(")"))
  ELSE Return(Lit("Unexpected error: ") \o out.exc.text)

\* A variant that repeats the search once when it raised
search_tracks_retry(query, limit, r1) ==
  LET call == ApiCall("search", [q |-> query, type |-> "track", limit |-> search_limit(limit)], r1)
  IN [out |-> search_tracks_except(search_tracks_try(query, limit, r1)),
      calls |-> IF r1.kind = "raise" THEN <<call, call>> ELSE <<call>>]

\* lines 35-65
search_tracks(query, limit, r1) ==
  [out |-> search_tracks_except(search_tracks_try(query, limit, r1)),
   calls |-> << ApiCall("search", [q |-> query, type |-> "track", limit |-> search_limit(limit)], r1) >>]

-----------------------------------------------------------------------------
(* get_artist_info *)

ArtistNames == { <<>>, <<"Q">>, <<"e","r","r","o","r">> }

ArtistItem(id, name) == PyDict([id |-> PyStr(id), name |-> PyStr(name)])

\* what sp.search(q, type='artist', limit=1) can give
SearchArtistResponses ==
  { ApiRaise(e) : e \in ApiErrors }
  \cup { ApiOk(PyNone), ApiOk(PyDict(EmptyMap)),
         ApiOk(PyDict([tracks |-> PyDict([items |-> PyList(<<>>)])])),
         ApiOk(PyDict([artists |-> PyNone])),
         ApiOk(PyDict([artists |-> PyDict(EmptyMap)])),
         ApiOk(PyDict([artists |-> PyDict([total |-> PyInt(0)])])),
         ApiOk(PyDict([artists |-> PyDict([items |-> PyList(<<>>)])])),
         ApiOk(PyDict([artists |-> PyDict([items |-> PyList(<<ArtistItem(<<"A","1">>, <<"Q">>)>>)])])),
         ApiOk(PyDict([artists |-> PyDict([items |->
                 PyList(<<ArtistItem(<<"A","2">>, <<"D","B">>), ArtistItem(<<"A","1">>, <<"Q">>)>>)])])) }

ArtistDetails(name, pop, followers, genres, id) ==
  PyDict([name |-> PyStr(name), popularity |-> PyInt(pop),
          followers |-> PyDict([total |-> PyInt(followers)]),
          genres |-> PyList(genres), uri |-> PyStr(<<"a",":">> \o id)])

\* what sp.artist(artist_id) can give
ArtistResponses ==
  { ApiRaise(e) : e \in ApiErrors }
  \cup { ApiOk(PyNone), ApiOk(PyDict(EmptyMap)),
         ApiOk(ArtistDetails(<<"Q">>, 87, 1234567, <<PyStr(<<"r","o","c","k">>), PyStr(<<"p","o","p">>)>>, <<"A","1">>)),
         ApiOk(ArtistDetails(<<"D","B">>, 0, 999, <<>>, <<"A","2">>)) }

TrackOf(i) == IF i % 3 = 1 THEN TrackA ELSE IF i % 3 = 2 THEN TrackB ELSE TrackC

\* what sp.artist_top_tracks(artist_id) can give
TopTracksResponses ==
  { ApiRaise(e) : e \in ApiErrors }
  \cup { ApiOk(PyNone), ApiOk(PyDict(EmptyMap)), ApiOk(PyDict([tracks |-> PyList(<<>>)])) }
  \cup { ApiOk(PyDict([tracks |-> PyList([i \in 1..n |-> TrackOf(i)])])) : n \in 1..MaxTopTracks }

\* lines 104-105: for i, track in enumerate(top_tracks['tracks'][:5], 1)
RECURSIVE top_track_lines(_, _)
top_track_lines(tracks, i) ==
  IF i > Len(tracks) THEN <<>>
  ELSE IntToStr(i) \o Lit(". ") \o tracks[i].v.name.v \o Lit(" - ")
       \o tracks[i].v.album.v.name.v \o Lit("\n") \o top_track_lines(tracks, i + 1)

\* lines 97-105
format_artist(artist_details, top_tracks) ==
  LET d == artist_details.v
      genres == [i \in 1..Len(d.genres.v) |-> d.genres.v[i].v]
  IN Lit("Artist: ") \o d.name.v \o Lit("\n")
     \o Lit("Popularity: ") \o IntToStr(d.popularity.v) \o Lit("/100\n")
     \o Lit("Followers: ") \o NatToStrComma(d.followers.v.total.v) \o Lit("\n")
     \o Lit("Genres: ") \o (IF Truthy(d.genres) THEN Join(Lit(", "), genres) ELSE Lit("N/A")) \o Lit("\n")
     \o Lit("Spotify URI: ") \o d.uri.v \o Lit("\n\n")
     \o Lit("Top Tracks:\n")
     \o top_track_lines(Take(top_tracks.v.tracks.v, 5), 1)

\* lines 78-107: the body of the try; r1, r2, r3 are the outcomes of sp.search,
\* sp.artist and sp.artist_top_tracks (r2, r3 are used only if the call is reached)
get_artist_info_try(artist_name, r1, r2, r3) ==
  LET call1 == ApiCall("search", [q |-> artist_name, type |-> "artist", limit |-> 1], r1)
      notFound == Return(Lit("No artist found with name: '") \o artist_name \o Lit("'"))
  IN
  IF r1.kind = "raise" THEN [out |-> Raise(r1.exc), calls |-> <<call1>>]
  ELSE LET results == r1.value IN
    IF ~Truthy(results) THEN [out |-> notFound, calls |-> <<call1>>]
    ELSE IF ~Truthy(Get(results, "artists")) THEN [out |-> notFound, calls |-> <<call1>>]
    ELSE IF ~HasKey(results.v.artists, "items")
      THEN [out |-> Raise(KeyError(<<"i","t","e","m","s">>)), calls |-> <<call1>>]
    ELSE IF ~Truthy(results.v.artists.v.items) THEN [out |-> notFound, calls |-> <<call1>>]
    ELSE
      LET artist == results.v.artists.v.items.v[1]
          artist_id == artist.v.id.v
          call2 == ApiCall("artist", [artist_id |-> artist_id], r2)
      IN
      IF r2.kind = "raise" THEN [out |-> Raise(r2.exc), calls |-> <<call1, call2>>]
      ELSE IF ~Truthy(r2.value)
        THEN [out |-> Return(Lit("Could not retrieve details for artist: '") \o artist_name \o Lit("'")),
              calls |-> <<call1, call2>>]
      ELSE
        LET call3 == ApiCall("artist_top_tracks", [artist_id |-> artist_id], r3) IN
        IF r3.kind = "raise" THEN [out |-> Raise(r3.exc), calls |-> <<call1, call2, call3>>]
        ELSE IF ~Truthy(r3.value) \/ ~Truthy(Get(r3.value, "tracks"))
          THEN [out |-> Return(Lit("Could not retrieve top tracks for artist: '") \o artist_name \o Lit("'")),
                calls |-> <<call1, call2, call3>>]
        ELSE [out |-> Return(format_artist(r2.value, r3.value)), calls |-> <<call1, call2, call3>>]

\* A variant of the except clauses without the  except Exception  clause
get_artist_info_except_only_spotify(out) ==
  IF out.kind = "raise" /\ out.exc.cls = "SpotifyException"
  THEN Return(Lit("Spotify API error: ") \o out.exc.msg \o Lit(" (Status: ")
              \o IntToStr(out.exc.http_status) \o Lit(")"))
  ELSE out

\* lines 109-112: the except clauses
get_artist_info_except(out) ==
  IF out.kind # "raise" THEN out
  ELSE IF out.exc.cls = "SpotifyException"
  THEN Return(Lit("Spotify API error: ") \o out.exc.msg \o Lit(" (Status: ")
              \o IntToStr(out.exc.http_status) \o Lit(")"))
  ELSE Return(Lit("Unexpected error: ") \o out.exc.text)

get_artist_info(artist_name, r1, r2, r3) ==
  LET body == get_artist_info_try(artist_name, r1, r2, r3)
  IN [out |-> get_artist_info_except(body.out), calls |-> body.calls]

-----------------------------------------------------------------------------
(* get_audio_features *)

TrackIds == { <<>>, <<"1","a">>, <<"e","r","r","o","r">> }

\* A Python float, kept in thousandths.  The model's values need no rounding tie
\* to be broken at one or two places.
PyFloat(mil) == [t |-> "float", v |-> mil]

\* f"{x:.1f}" (places = 1) and f"{x:.2f}" (places = 2) of a float given in thousandths
FmtFixed(mil, places) ==
  LET a == IF mil < 0 THEN -mil ELSE mil
      unit == IF places = 1 THEN 100 ELSE 10
      q == (a + unit \div 2) \div unit
      scale == IF places = 1 THEN 10 ELSE 100
      ip == q \div scale
      fp == q % scale
  IN (IF mil < 0 THEN <<"-">> ELSE <<>>) \o NatToStr(ip) \o Lit(".")
     \o (IF places = 1 THEN <<Digit(fp)>> ELSE <<Digit(fp \div 10), Digit(fp % 10)>>)

Features(tempo, key, mode, loud) ==
  PyDict([tempo |-> PyFloat(tempo), key |-> PyInt(key), mode |-> PyInt(mode),
          time_signature |-> PyInt(4), duration_ms |-> PyInt(354320),
          danceability |-> PyFloat(392), energy |-> PyFloat(402), speechiness |-> PyFloat(54),
          acousticness |-> PyFloat(288), instrumentalness |-> PyFloat(0), liveness |-> PyFloat(243),
          valence |-> PyFloat(228), loudness |-> PyFloat(loud)])

\* what sp.audio_features(track_id) can give
AudioFeaturesResponses ==
  { ApiRaise(e) : e \in ApiErrors }
  \cup { ApiOk(PyNone), ApiOk(PyList(<<>>)), ApiOk(PyList(<<PyNone>>)),
         ApiOk(PyList(<<Features(143883, 0, 1, -9961)>>)),
         ApiOk(PyList(<<Features(80000, 11, 0, -12040), PyNone>>)) }

\* what sp.track(track_id) can give
TrackResponses ==
  { ApiRaise(e) : e \in ApiErrors }
  \cup { ApiOk(PyNone), ApiOk(PyDict(EmptyMap)) }
  \cup { ApiOk(t) : t \in Tracks }

\* lines 137-152
format_features(track, features) ==
  LET f == features.v IN
  Lit("Audio Features for: ") \o track.v.name.v \o Lit(" by ")
     \o track.v.artists.v[1].v.name.v \o Lit("\n\n")
  \o Lit("Tempo: ") \o FmtFixed(f.tempo.v, 1) \o Lit(" BPM\n")
  \o Lit("Key: ") \o IntToStr(f.key.v) \o Lit(" (0=C, 1=C#, 2=D, etc.)\n")
  \o Lit("Mode: ") \o (IF f.mode.v = 1 THEN Lit("Major") ELSE Lit("Minor")) \o Lit("\n")
  \o Lit("Time Signature: ") \o IntToStr(f.time_signature.v) \o Lit("/4\n")
  \o Lit("Duration: ") \o FmtFixed(f.duration_ms.v, 1) \o Lit(" seconds\n\n")
  \o Lit("Musical Characteristics (0.0 to 1.0):\n")
  \o Lit("  Danceability: ") \o FmtFixed(f.danceability.v, 2) \o Lit("\n")
  \o Lit("  Energy: ") \o FmtFixed(f.energy.v, 2) \o Lit("\n")
  \o Lit("  Speechiness: ") \o FmtFixed(f.speechiness.v, 2) \o Lit("\n")
  \o Lit("  Acousticness: ") \o FmtFixed(f.acousticness.v, 2) \o Lit("\n")
  \o Lit("  Instrumentalness: ") \o FmtFixed(f.instrumentalness.v, 2) \o Lit("\n")
  \o Lit("  Liveness: ") \o FmtFixed(f.liveness.v, 2) \o Lit("\n")
  \o Lit("  Valence (positivity): ") \o FmtFixed(f.valence.v, 2) \o Lit("\n")
  \o Lit("  Loudness: ") \o FmtFixed(f.loudness.v, 1) \o Lit(" dB\n")

\* lines 125-154: the body of the try; r1, r2 are the outcomes of sp.audio_features
\* and sp.track (r2 is used only if the call is reached)
get_audio_features_try(track_id, r1, r2) ==
  LET call1 == ApiCall("audio_features", [track_id |-> track_id], r1)
      notFound == Return(Lit("No audio features found for track ID: '") \o track_id \o Lit("'"))
  IN
  IF r1.kind = "raise" THEN [out |-> Raise(r1.exc), calls |-> <<call1>>]
  ELSE LET features_response == r1.value IN
    IF ~Truthy(features_response) THEN [out |-> notFound, calls |-> <<call1>>]
    ELSE IF ~Truthy(features_response.v[1]) THEN [out |-> notFound, calls |-> <<call1>>]
    ELSE
      LET features == features_response.v[1]
          call2 == ApiCall("track", [track_id |-> track_id], r2)
      IN
      IF r2.kind = "raise" THEN [out |-> Raise(r2.exc), calls |-> <<call1, call2>>]
      ELSE IF ~Truthy(r2.value)
        THEN [out |-> Return(Lit("Could not retrieve track information for ID: '") \o track_id \o Lit("'")),
              calls |-> <<call1, call2>>]
      ELSE IF Len(r2.value.v.artists.v) = 0
        THEN [out |-> Raise(OtherException("IndexError", Lit("list index out of range"))),
              calls |-> <<call1, call2>>]
      ELSE [out |-> Return(format_features(r2.value, features)), calls |-> <<call1, call2>>]

\* lines 156-159: the except clauses
get_audio_features_except(out) ==
  IF out.kind # "raise" THEN out
  ELSE IF out.exc.cls = "SpotifyException"
  THEN Return(Lit("Spotify API error: ") \o out.exc.msg \o Lit(" (Status: ")
              \o IntToStr(out.exc.http_status) \o Lit(")"))
  ELSE Return(Lit("Unexpected error: ") \o out.exc.text)

get_audio_features(track_id, r1, r2) ==
  LET body == get_audio_features_try(track_id, r1, r2)
  IN [out |-> get_audio_features_except(body.out), calls |-> body.calls]

-----------------------------------------------------------------------------
(* get_recommendations *)

SeedStrings ==
  { <<>>,
    <<"1","a">>,
    <<" ","1","a"," ",","," ","2","b">>,
    <<",">>,
    <<"a",",","b",",","c",",","d",",","e",",","f">> }

\* what sp.recommendations(seed_tracks, limit) can give
RecommendationResponses ==
  { ApiRaise(e) : e \in ApiErrors }
  \cup { ApiOk(PyNone), ApiOk(PyDict(EmptyMap)),
         ApiOk(PyDict([seeds |-> PyList(<<>>)])),
         ApiOk(PyDict([tracks |-> PyNone])),
         ApiOk(PyDict([tracks |-> PyList(<<>>)])) }
  \cup { ApiOk(PyDict([tracks |-> PyList(l), seeds |-> PyList(<<>>)])) : l \in TrackLists }

\* line 173: [tid.strip() for tid in seed_track_ids.split(',')][:5]
parse_track_ids(seed_track_ids) ==
  LET parts == Split(seed_track_ids, ",")
  IN Take([i \in 1..Len(parts) |-> Strip(parts[i])], 5)

\* min(limit, 100)
recommendations_limit(limit) == Min(limit, 100)

\* lines 186-190
RECURSIVE rec_entries(_, _)
rec_entries(tracks, i) ==
  IF i > Len(tracks) THEN <<>>
  ELSE LET track == tracks[i].v IN
       IntToStr(i) \o Lit(". ") \o track.name.v \o Lit(" by ")
       \o Join(Lit(", "), [k \in 1..Len(track.artists.v) |-> track.artists.v[k].v.name.v]) \o Lit("\n")
       \o Lit("   Album: ") \o track.album.v.name.v \o Lit("\n")
       \o Lit("   Track ID: ") \o track.id.v \o Lit("\n")
       \o Lit("   Popularity: ") \o IntToStr(track.popularity.v) \o Lit("/100\n\n")
       \o rec_entries(tracks, i + 1)

\* lines 173-192: the body of the try; r1 is the outcome of sp.recommendations
get_recommendations_try(seed_track_ids, limit, r1) ==
  LET track_ids == parse_track_ids(seed_track_ids) IN
  IF Len(track_ids) = 0
  THEN [out |-> Return(Lit("Please provide at least one track ID")), calls |-> <<>>]
  ELSE
    LET call1 == ApiCall("recommendations",
                         [seed_tracks |-> track_ids, limit |-> recommendations_limit(limit)], r1)
    IN
    IF r1.kind = "raise" THEN [out |-> Raise(r1.exc), calls |-> <<call1>>]
    ELSE LET results == r1.value IN
      IF ~Truthy(results)
        THEN [out |-> Return(Lit("No recommendations found for the given tracks")), calls |-> <<call1>>]
      ELSE IF ~HasKey(results, "tracks")
        THEN [out |-> Raise(KeyError(<<"t","r","a","c","k","s">>)), calls |-> <<call1>>]
      ELSE IF ~Truthy(results.v.tracks)
        THEN [out |-> Return(Lit("No recommendations found for the given tracks")), calls |-> <<call1>>]
      ELSE [out |-> Return(Lit("Recommendations based on ") \o IntToStr(Len(track_ids))
                           \o Lit(" seed track(s):\n\n") \o rec_entries(results.v.tracks.v, 1)),
            calls |-> <<call1>>]

\* lines 194-197: the except clauses
get_recommendations_except(out) ==
  IF out.kind # "raise" THEN out
  ELSE IF out.exc.cls = "SpotifyException"
  THEN Return(Lit("Spotify API error: ") \o out.exc.msg \o Lit(" (Status: ")
              \o IntToStr(out.exc.http_status) \o Lit(")"))
  ELSE Return(Lit("Unexpected error: ") \o out.exc.text)

get_recommendations(seed_track_ids, limit, r1) ==
  LET body == get_recommendations_try(seed_track_ids, limit, r1)
  IN [out |-> get_recommendations_except(body.out), calls |-> body.calls]

-----------------------------------------------------------------------------
(* The server: mcp.run() receives one tool call, runs the function and sends *)
(* its result; the module keeps no state of its own between calls.           *)

IdleServer == op = "none" /\ args = EmptyMap /\ apiLog = <<>> /\ ret = [kind |-> "none"]

SearchTracks ==
  \E query \in Queries, limit \in Limits, r1 \in SearchTrackResponses :
    LET res == search_tracks(query, limit, r1) IN
    /\ op = "none"
    /\ op' = "search_tracks"
    /\ args' = [query |-> query, limit |-> limit]
    /\ apiLog' = res.calls
    /\ ret' = res.out
    /\ UNCHANGED <<built, boot, clientVars, life>>

GetArtistInfo ==
  \E artist_name \in ArtistNames, r1 \in SearchArtistResponses,
     r2 \in ArtistResponses, r3 \in TopTracksResponses :
    LET res == get_artist_info(artist_name, r1, r2, r3) IN
    /\ op = "none"
    /\ op' = "get_artist_info"
    /\ args' = [artist_name |-> artist_name]
    /\ apiLog' = res.calls
    /\ ret' = res.out
    /\ UNCHANGED <<built, boot, clientVars, life>>

GetAudioFeatures ==
  \E track_id \in TrackIds, r1 \in AudioFeaturesResponses, r2 \in TrackResponses :
    LET res == get_audio_features(track_id, r1, r2) IN
    /\ op = "none"
    /\ op' = "get_audio_features"
    /\ args' = [track_id |-> track_id]
    /\ apiLog' = res.calls
    /\ ret' = res.out
    /\ UNCHANGED <<built, boot, clientVars, life>>

GetRecommendations ==
  \E seed_track_ids \in SeedStrings, limit \in Limits, r1 \in RecommendationResponses :
    LET res == get_recommendations(seed_track_ids, limit, r1) IN
    /\ op = "none"
    /\ op' = "get_recommendations"
    /\ args' = [seed_track_ids |-> seed_track_ids, limit |-> limit]
    /\ apiLog' = res.calls
    /\ ret' = res.out
    /\ UNCHANGED <<built, boot, clientVars, life>>

\* mcp.run(): the result goes back to the caller and the server waits for the next call
SendResult ==
  /\ op # "none"
  /\ op' = "none" /\ args' = EmptyMap /\ apiLog' = <<>> /\ ret' = [kind |-> "none"]
  /\ UNCHANGED <<built, boot, clientVars, life>>

NextServer == SearchTracks \/ GetArtistInfo \/ GetAudioFeatures \/ GetRecommendations \/ SendResult

-----------------------------------------------------------------------------
(* The client: string literals of spotify_langchain_client.py and of the    *)
(* values the model feeds it                                                *)

CLit(s) ==
  CASE s = "Error: " -> <<"E","r","r","o","r",":"," ">>
    [] s = "No content" -> <<"N","o"," ","c","o","n","t","e","n","t">>
    [] s = "No content in response" -> <<"N","o"," ","c","o","n","t","e","n","t"," ","i","n"," ","r","e","s","p","o","n","s","e">>
    [] s = "[Binary content: " -> <<"[","B","i","n","a","r","y"," ","c","o","n","t","e","n","t",":"," ">>
    [] s = "]" -> <<"]">>
    [] s = "str" -> <<"s","t","r">>
    [] s = "Successful response must have content" -> <<"S","u","c","c","e","s","s","f","u","l"," ","r","e","s","p","o","n","s","e"," ","m","u","s","t"," ","h","a","v","e"," ","c","o","n","t","e","n","t">>
    [] s = "Failed response must have error message" -> <<"F","a","i","l","e","d"," ","r","e","s","p","o","n","s","e"," ","m","u","s","t"," ","h","a","v","e"," ","e","r","r","o","r"," ","m","e","s","s","a","g","e">>
    [] s = "Tool name cannot be empty" -> <<"T","o","o","l"," ","n","a","m","e"," ","c","a","n","n","o","t"," ","b","e"," ","e","m","p","t","y">>
    [] s = "Tool: " -> <<"T","o","o","l",":"," ">>
    [] s = "SpotifySearch" -> <<"S","p","o","t","i","f","y","S","e","a","r","c","h">>
    [] s = "SpotifyPlaylist" -> <<"S","p","o","t","i","f","y","P","l","a","y","l","i","s","t">>
    [] s = "SpotifyPlayback" -> <<"S","p","o","t","i","f","y","P","l","a","y","b","a","c","k">>
    [] s = "SpotifyGetInfo" -> <<"S","p","o","t","i","f","y","G","e","t","I","n","f","o">>
    [] s = "SpotifyQueue" -> <<"S","p","o","t","i","f","y","Q","u","e","u","e">>
    [] s = "search_tracks" -> <<"s","e","a","r","c","h","_","t","r","a","c","k","s">>
    [] s = "get-info" -> <<"g","e","t","-","i","n","f","o">>
    [] s = "a b" -> <<"a"," ","b">>
    [] s = "_" -> <<"_">>
    [] s = "type='text' text='" -> <<"t","y","p","e","=","'","t","e","x","t","'"," ","t","e","x","t","=","'">>
    [] s = "type='image' data='" -> <<"t","y","p","e","=","'","i","m","a","g","e","'"," ","d","a","t","a","=","'">>
    [] s = "type='resource' resource='" -> <<"t","y","p","e","=","'","r","e","s","o","u","r","c","e","'"," ","r","e","s","o","u","r","c","e","=","'">>
    [] s = "'" -> <<"'">>
    [] s = "name 'content_item' is not defined" -> <<"n","a","m","e"," ","'","c","o","n","t","e","n","t","_","i","t","e","m","'"," ","i","s"," ","n","o","t"," ","d","e","f","i","n","e","d">>
    [] s = "boom" -> <<"b","o","o","m">>
    [] s = "API key cannot be empty or whitespace" -> <<"A","P","I"," ","k","e","y"," ","c","a","n","n","o","t"," ","b","e"," ","e","m","p","t","y"," ","o","r"," ","w","h","i","t","e","s","p","a","c","e">>
    [] s = "String should have at least 1 character" -> <<"S","t","r","i","n","g"," ","s","h","o","u","l","d"," ","h","a","v","e"," ","a","t"," ","l","e","a","s","t"," ","1"," ","c","h","a","r","a","c","t","e","r">>
    [] s = "Server path does not exist: " -> <<"S","e","r","v","e","r"," ","p","a","t","h"," ","d","o","e","s"," ","n","o","t"," ","e","x","i","s","t",":"," ">>
    [] s = "./example-client-spotify/spotify-mcp" -> <<".","/","e","x","a","m","p","l","e","-","c","l","i","e","n","t","-","s","p","o","t","i","f","y","/","s","p","o","t","i","f","y","-","m","c","p">>
    [] s = "claude-sonnet-4-5-20250929" -> <<"c","l","a","u","d","e","-","s","o","n","n","e","t","-","4","-","5","-","2","0","2","5","0","9","2","9">>
    [] s = "gpt-5-2025-08-07" -> <<"g","p","t","-","5","-","2","0","2","5","-","0","8","-","0","7">>
    [] s = "Unsupported provider: " -> <<"U","n","s","u","p","p","o","r","t","e","d"," ","p","r","o","v","i","d","e","r",":"," ">>


-----------------------------------------------------------------------------
(* MCPToolResponse: a pydantic model with fields success, content, error    *)
(* (in this order) and one field validator on content and error.  Pydantic  *)
(* runs a field validator only for a field the caller passes; a field left  *)
(* out takes its default unvalidated.  info.data holds the fields already   *)
(* settled, so the validator of content and of error sees success.          *)

Absent == [t |-> "absent"]

\* keyword arguments of a construction: success as "True"/"False" or "absent" (left out),
\* content and error as a str, None or Absent (left out)

ResponseStrings == { <<>>, <<"a">>, <<"b">> }
FieldInputs == { Absent, PyNone } \cup { PyStr(s) : s \in ResponseStrings }
ResponseInputs == [success : {"absent", "True", "False"}, content : FieldInputs, error : FieldInputs]

\* lines 110-117: the validator; "" stands for no error raised
validate_content_or_error(v, field_name, success) ==
  IF success /\ ~Truthy(v) /\ field_name = "content"
    THEN "Successful response must have content"
  ELSE IF ~success /\ ~Truthy(v) /\ field_name = "error"
    THEN "Failed response must have error message"
  ELSE ""

\* lines 102-117: MCPToolResponse(**kw)
MCPToolResponse(kw) ==
  LET success == IF kw.success = "absent" THEN TRUE ELSE kw.success = "True"
      contentErr == IF kw.content = Absent THEN ""
                    ELSE validate_content_or_error(kw.content, "content", success)
      errorErr == IF kw.error = Absent THEN ""
                  ELSE validate_content_or_error(kw.error, "error", success)
      errs == { contentErr, errorErr } \ { "" }
  IN IF errs # {} THEN [ok |-> FALSE, errors |-> errs]
     ELSE [ok |-> TRUE,
           obj |-> [success |-> success,
                    content |-> IF kw.content = Absent THEN PyNone ELSE kw.content,
                    error |-> IF kw.error = Absent THEN PyNone ELSE kw.error]]

-----------------------------------------------------------------------------
(* Tool discovery: discover_mcp_tools *)

MaxCatalog == 3

AlnumChars ==
  { "a","b","c","d","e","f","g","h","i","j","k","l","m","n","o","p","q","r","s","t","u","v","w","x","y","z",
    "A","B","C","D","E","F","G","H","I","J","K","L","M","N","O","P","Q","R","S","T","U","V","W","X","Y","Z",
    "0","1","2","3","4","5","6","7","8","9" }

\* s.replace(c, '') for a one-character c
Remove(s, c) == SelectSeq(s, LAMBDA x : x # c)

\* s.isalnum()
IsAlnum(s) == Len(s) > 0 /\ \A i \in 1..Len(s) : s[i] \in AlnumChars

\* lines 77, 83-86: MCPToolSchema's checks of name: min_length=1, then validate_tool_name
tool_name_valid(v) == Len(v) >= 1 /\ IsAlnum(Remove(Remove(v, "_"), "-"))

\* line 311: input_schema.get('properties', {}).keys(), which only a mapping has
properties_keys(input_schema) ==
  LET properties == IF HasKey(input_schema, "properties") THEN input_schema.v.properties
                    ELSE PyDict(EmptyMap)
  IN IF properties.t = "dict" THEN Return(DOMAIN properties.v)
     ELSE Raise(OtherException("AttributeError", <<>>))

\* lines 302-315: the try block: MCPToolSchema(...) is constructed and printed; TRUE
\* when no exception sends the loop to the next tool
validate_tool(mcp_tool) ==
  /\ tool_name_valid(mcp_tool.name)
  /\ properties_keys(IF Truthy(mcp_tool.inputSchema) THEN mcp_tool.inputSchema
                     ELSE PyDict(EmptyMap)).kind = "return"

\* lines 170-176
TOOL_SCHEMAS ==
  { <<CLit("SpotifySearch"), "SpotifySearchArgs">>,
    <<CLit("SpotifyPlaylist"), "SpotifyPlaylistArgs">>,
    <<CLit("SpotifyPlayback"), "SpotifyPlaybackArgs">>,
    <<CLit("SpotifyGetInfo"), "SpotifyGetInfoArgs">>,
    <<CLit("SpotifyQueue"), "SpotifyQueueArgs">> }

\* TOOL_SCHEMAS.get(name): the schema class, or "None"
schema_get(name) ==
  IF \E p \in TOOL_SCHEMAS : p[1] = name
  THEN (CHOOSE p \in TOOL_SCHEMAS : p[1] = name)[2]
  ELSE "None"

\* a tool as list_tools() declares it
McpTool(name, description, inputSchema) ==
  [name |-> name, description |-> description, inputSchema |-> inputSchema]

\* input schemas a server may declare: with a mapping of properties, without one,
\* and with "properties": null
ObjectSchema == PyDict([properties |-> PyDict([query |-> PyDict(EmptyMap)])])
BareSchema == PyDict(EmptyMap)
NullPropertiesSchema == PyDict([properties |-> PyNone])

DeclaredTools ==
  { McpTool(CLit("SpotifySearch"), PyStr(<<"s">>), ObjectSchema),
    McpTool(CLit("SpotifyQueue"), PyNone, BareSchema),
    McpTool(CLit("SpotifyPlaylist"), PyNone, NullPropertiesSchema),
    McpTool(CLit("search_tracks"), PyStr(<<"t">>), ObjectSchema),
    McpTool(CLit("get-info"), PyNone, BareSchema),
    McpTool(CLit("a b"), PyNone, ObjectSchema),
    McpTool(CLit("_"), PyNone, BareSchema),
    McpTool(<<>>, PyNone, BareSchema) }

Catalogs == UNION { [1..n -> DeclaredTools] : n \in 0..MaxCatalog }

\* lines 279-283
ServerParams == [command |-> "uv", args |-> <<"--directory", "./example-client-spotify/spotify-mcp", "run", "spotify-mcp">>]

\* lines 325-342: make_tool_function(tool_name, params): the closure's bound variables
make_tool_function(tool_name, params) == [tool_name |-> tool_name, params |-> params]

\* lines 345-350: StructuredTool.from_function(...)
structured_tool(validated_name, description, args_schema, params) ==
  [name |-> validated_name,
   description |-> IF Truthy(description) THEN description.v ELSE CLit("Tool: ") \o validated_name,
   args_schema |-> args_schema,
   coroutine |-> make_tool_function(validated_name, params)]

\* lines 300-352: the for loop from its i-th tool on; acc holds langchain_tools and,
\* for the record, the names looked up in TOOL_SCHEMAS and the tools skipped
RECURSIVE discover_loop(_, _, _, _)
discover_loop(tools, i, params, acc) ==
  IF i > Len(tools) THEN acc
  ELSE LET mcp_tool == tools[i] IN
    IF ~validate_tool(mcp_tool)
    THEN discover_loop(tools, i + 1, params, [acc EXCEPT !.invalid = Append(@, i)])
    ELSE LET args_schema == schema_get(mcp_tool.name)
             looked == [acc EXCEPT !.lookups = Append(@, mcp_tool.name)]
         IN IF args_schema = "None"
            THEN discover_loop(tools, i + 1, params, [looked EXCEPT !.no_schema = Append(@, i)])
            ELSE discover_loop(tools, i + 1, params,
                   [looked EXCEPT !.langchain_tools =
                      Append(@, structured_tool(mcp_tool.name, mcp_tool.description, args_schema, params)),
                                     !.from = Append(@, i)])

EmptyAcc == [langchain_tools |-> <<>>, from |-> <<>>, lookups |-> <<>>, invalid |-> <<>>, no_schema |-> <<>>]

\* A transport connection with its session, as the client holds it; the owner is the
\* invocation that opened it (0: discover_mcp_tools)
NewConn(owner) ==
  [owner |-> owner, transport |-> "open", session |-> "none", initialized |-> FALSE, requests |-> <<>>]

\* session.initialize(): the request goes out; ok: the server answered it
session_initialize(conn, ok) ==
  [conn EXCEPT !.initialized = ok, !.requests = Append(@, [method |-> "initialize"])]

IdleDisc == disc = [pc |-> "start", conn |-> -1, result |-> EmptyAcc, returned |-> <<>>]

\* lines 286-287: async with stdio_client(...), async with ClientSession(...)
DiscoverConnect ==
  /\ disc.pc = "start"
  /\ conns' = (0 :> [NewConn(0) EXCEPT !.session = "open"]) @@ conns
  /\ disc' = [disc EXCEPT !.pc = "initialize", !.conn = 0]
  /\ UNCHANGED <<serverVars, built, boot, catalog, calls, life>>

\* line 288: await session.initialize()
DiscoverInitialize ==
  /\ disc.pc = "initialize"
  /\ conns' = [conns EXCEPT ![disc.conn] = session_initialize(@, TRUE)]
  /\ disc' = [disc EXCEPT !.pc = "list_tools"]
  /\ UNCHANGED <<serverVars, built, boot, catalog, calls, life>>

\* lines 293-354: await session.list_tools(), then the loop, up to the return statement
DiscoverListTools ==
  /\ disc.pc = "list_tools"
  /\ \E c \in Catalogs :
       /\ catalog' = c
       /\ disc' = [disc EXCEPT !.pc = "exit",
                               !.result = discover_loop(c, 1, ServerParams, EmptyAcc)]
  /\ conns' = [conns EXCEPT ![disc.conn].requests = Append(@, [method |-> "list_tools"])]
  /\ UNCHANGED <<serverVars, built, boot, calls, life>>

\* leaving both async with blocks; the caller then holds langchain_tools
DiscoverExit ==
  /\ disc.pc = "exit"
  /\ conns' = [conns EXCEPT ![disc.conn].session = "closed", ![disc.conn].transport = "closed"]
  /\ disc' = [disc EXCEPT !.pc = "done", !.returned = disc.result.langchain_tools]
  /\ UNCHANGED <<serverVars, built, boot, catalog, calls, life>>

NextDiscover == DiscoverConnect \/ DiscoverInitialize \/ DiscoverListTools \/ DiscoverExit

-----------------------------------------------------------------------------
(* Tool invocation: the wrapped callable and call_mcp_tool *)

MaxCalls == 2

\* keyword arguments the agent may pass to a wrapped callable
KwargsSet == { PyDict(EmptyMap), PyDict([query |-> PyStr(<<"q">>)]) }

\* exceptions the transport, the session or the tool call may raise
ClientErrors ==
  { OtherException("RuntimeError", CLit("boom")),
    OtherException("ClosedResourceError", <<>>) }

TextContent(text) == [type |-> "text", text |-> text]
ImageContent(data) == [type |-> "image", data |-> data]
EmbeddedResource(res) == [type |-> "resource", resource |-> res]

\* result.content of what session.call_tool returns
ToolResults ==
  { PyList(<<>>),
    PyList(<<TextContent(<<"h","i">>)>>),
    PyList(<<ImageContent(<<"x">>), TextContent(<<"h","i">>)>>),
    PyList(<<EmbeddedResource(<<"r">>)>>) }

\* str(item) of a content item: the item's fields as pydantic prints them
StrOf(item) ==
  CASE item.type = "text" -> CLit("type='text' text='") \o item.text \o CLit("'")
    [] item.type = "image" -> CLit("type='image' data='") \o item.data \o CLit("'")
    [] item.type = "resource" -> CLit("type='resource' resource='") \o item.resource \o CLit("'")

\* hasattr(x, name): a str has neither a text nor a data attribute; a content item has its fields
HasAttr(x, name) == x.t # "str" /\ name \in DOMAIN x.v

\* lines 89-99: MCPToolCall(tool_name=..., arguments=...)
MCPToolCall(tool_name, arguments) ==
  IF Len(tool_name) = 0 \/ Strip(tool_name) = <<>>
  THEN [ok |-> FALSE, errors |-> {"Tool name cannot be empty"}]
  ELSE [ok |-> TRUE, obj |-> [tool_name |-> tool_name, arguments |-> arguments]]

ValidationError(r) ==
  OtherException("ValidationError", CLit(CHOOSE m \in r.errors : TRUE))

\* MCPToolResponse(...) inside call_mcp_tool: the record, or the ValidationError raised
construct_response(kw) ==
  LET r == MCPToolResponse(kw)
  IN IF r.ok THEN Return(r.obj) ELSE Raise(ValidationError(r))

\* lines 238-256: from the tool result to the return statement of the try body
process_result(result) ==
  IF Truthy(result)
  THEN LET content == PyStr(StrOf(result.v[1])) IN
       IF HasAttr(content, "text")
         THEN Raise(OtherException("NameError", CLit("name 'content_item' is not defined")))
       ELSE IF HasAttr(content, "data")
         THEN construct_response([success |-> "True",
                                  content |-> PyStr(CLit("[Binary content: ") \o CLit("str") \o CLit("]")),
                                  error |-> Absent])
       ELSE construct_response([success |-> "True", content |-> content, error |-> Absent])
  ELSE construct_response([success |-> "False", content |-> Absent,
                           error |-> PyStr(CLit("No content in response"))])

\* A variant of the handler that builds the record without validating it
except_handler_unvalidated(e) ==
  Return([success |-> FALSE, content |-> PyNone, error |-> PyStr(e.text)])

\* lines 258-261: except Exception as e
except_handler(e) ==
  construct_response([success |-> "False", content |-> Absent, error |-> PyStr(e.text)])

\* lines 225-261: what call_mcp_tool gives its caller once both async with blocks are
\* left with `pending` (a response being returned, or an exception in flight)
call_mcp_tool_finish(pending) ==
  IF pending.kind = "raise" THEN except_handler(pending.exc) ELSE pending

\* A variant of the wrapper that passes the error message on without the prefix
call_tool_wrapper_result_no_prefix(outcome) ==
  IF outcome.kind = "raise" THEN outcome
  ELSE LET response == outcome.value IN
    IF response.success
    THEN Return(IF Truthy(response.content) THEN response.content.v ELSE CLit("No content"))
    ELSE Return(Fmt(response.error))

\* lines 335-340: the wrapper, from the outcome of `await call_mcp_tool(...)`
call_tool_wrapper_result(outcome) ==
  IF outcome.kind = "raise" THEN outcome
  ELSE LET response == outcome.value IN
    IF response.success
    THEN Return(IF Truthy(response.content) THEN response.content.v ELSE CLit("No content"))
    ELSE Return(CLit("Error: ") \o Fmt(response.error))

\* A variant that hands out a connection that is still open, when there is one
stdio_client_pooled(cs, owner) ==
  IF \E id \in DOMAIN cs : cs[id].transport = "open"
  THEN [conns |-> cs, id |-> CHOOSE id \in DOMAIN cs : cs[id].transport = "open"]
  ELSE [conns |-> (owner :> NewConn(owner)) @@ cs, id |-> owner]

\* stdio_client(server_params): spawns a server process of its own, so the connection
\* is a new one; the model names it after the invocation that opens it
stdio_client(cs, owner) == [conns |-> (owner :> NewConn(owner)) @@ cs, id |-> owner]

NoOutcome == [kind |-> "none"]

\* lines 326-335: the agent calls a wrapped callable; the wrapper builds the call
\* record and enters call_mcp_tool
Invoke ==
  /\ disc.pc = "done"
  /\ Len(calls) < MaxCalls
  /\ \E k \in 1..Len(disc.returned), kw \in KwargsSet :
       LET tool == disc.returned[k]
           tc == MCPToolCall(tool.coroutine.tool_name, kw)
       IN calls' = Append(calls,
            [pc |-> IF tc.ok THEN "connect" ELSE "raised",
             callee |-> tool.name, kwargs |-> kw,
             tool_call |-> IF tc.ok THEN tc.obj ELSE [tool_name |-> <<>>, arguments |-> kw],
             params |-> tool.coroutine.params,
             conn |-> -1, raisedAt |-> "none", result |-> PyNone,
             pending |-> NoOutcome, response |-> NoOutcome,
             ret |-> IF tc.ok THEN NoOutcome ELSE Raise(ValidationError(tc))])
  /\ UNCHANGED <<serverVars, built, boot, catalog, disc, conns, life>>

\* call_mcp_tool is left: its outcome, and what the wrapper makes of it
Finished(c, pending) ==
  LET outcome == call_mcp_tool_finish(pending)
      r == call_tool_wrapper_result(outcome)
  IN [c EXCEPT !.pc = IF r.kind = "raise" THEN "raised" ELSE "returned",
               !.pending = pending, !.response = outcome, !.ret = r]

\* line 227: async with stdio_client(server_params)
Connect ==
  \E i \in 1..Len(calls) :
    /\ calls[i].pc = "connect"
    /\ \/ LET n == stdio_client(conns, i) IN
            /\ conns' = n.conns
            /\ calls' = [calls EXCEPT ![i].pc = "session", ![i].conn = n.id]
       \/ \E e \in ClientErrors :
            /\ calls' = [calls EXCEPT ![i] = Finished([@ EXCEPT !.raisedAt = "connect"], Raise(e))]
            /\ UNCHANGED conns
    /\ UNCHANGED <<serverVars, built, boot, catalog, disc, life>>

\* line 228: async with ClientSession(r, w)
OpenSession ==
  \E i \in 1..Len(calls) :
    /\ calls[i].pc = "session"
    /\ conns' = [conns EXCEPT ![calls[i].conn].session = "open"]
    /\ calls' = [calls EXCEPT ![i].pc = "initialize"]
    /\ UNCHANGED <<serverVars, built, boot, catalog, disc, life>>

\* A variant of call_tool that sends its request a second time when it sees no answer
session_call_tool_resend(conn, name, arguments) ==
  [conn EXCEPT !.requests = @ \o << [method |-> "call_tool", name |-> name, arguments |-> arguments],
                                    [method |-> "call_tool", name |-> name, arguments |-> arguments] >>]

\* lines 232-235: session.call_tool(tool_call.tool_name, arguments=...): the request
\* goes out on the session's connection
session_call_tool(conn, name, arguments) ==
  [conn EXCEPT !.requests = Append(@, [method |-> "call_tool", name |-> name,
                                       arguments |-> arguments])]

\* line 229: await session.initialize()
Initialize ==
  \E i \in 1..Len(calls) :
    /\ calls[i].pc = "initialize"
    /\ \/ /\ conns' = [conns EXCEPT ![calls[i].conn] = session_initialize(@, TRUE)]
          /\ calls' = [calls EXCEPT ![i].pc = "call_tool"]
       \/ \E e \in ClientErrors :
            /\ calls' = [calls EXCEPT ![i].pc = "exit", ![i].raisedAt = "initialize",
                                      ![i].pending = Raise(e)]
            /\ conns' = [conns EXCEPT ![calls[i].conn] = session_initialize(@, FALSE)]
    /\ UNCHANGED <<serverVars, built, boot, catalog, disc, life>>

\* lines 232-235: await session.call_tool(...): the request is sent and the coroutine
\* waits for the answer
CallTool ==
  \E i \in 1..Len(calls) :
    /\ calls[i].pc = "call_tool"
    /\ conns' = [conns EXCEPT ![calls[i].conn] =
                   session_call_tool(@, calls[i].tool_call.tool_name, calls[i].tool_call.arguments)]
    /\ calls' = [calls EXCEPT ![i].pc = "awaiting"]
    /\ UNCHANGED <<serverVars, built, boot, catalog, disc, life>>

\* lines 232-256: the answer arrives (or the call raises), then the response is built
CallToolReturns ==
  \E i \in 1..Len(calls) :
    /\ calls[i].pc = "awaiting"
    /\ \/ \E result \in ToolResults :
            LET out == process_result(result) IN
            calls' = [calls EXCEPT ![i].pc = "exit", ![i].result = result,
                                   ![i].raisedAt = IF out.kind = "raise" THEN "process" ELSE "none",
                                   ![i].pending = out]
       \/ \E e \in ClientErrors :
            calls' = [calls EXCEPT ![i].pc = "exit", ![i].raisedAt = "call_tool",
                                   ![i].pending = Raise(e)]
    /\ UNCHANGED <<serverVars, built, boot, catalog, disc, conns, life>>

\* the return statement (or the exception) leaves  async with ClientSession  and
\* async with stdio_client; call_mcp_tool and the wrapper then finish
ExitContexts ==
  \E i \in 1..Len(calls) :
    /\ calls[i].pc = "exit"
    /\ conns' = [conns EXCEPT ![calls[i].conn].session = "closed",
                              ![calls[i].conn].transport = "closed"]
    /\ calls' = [calls EXCEPT ![i] = Finished(@, calls[i].pending)]
    /\ UNCHANGED <<serverVars, built, boot, catalog, disc, life>>

\* the catalog the demonstration's server is taken to declare
DemoCatalog ==
  << McpTool(CLit("SpotifySearch"), PyStr(<<"s">>), ObjectSchema),
     McpTool(CLit("search_tracks"), PyStr(<<"t">>), ObjectSchema),
     McpTool(CLit("SpotifyQueue"), PyNone, BareSchema) >>

IdleClient == catalog = <<>> /\ IdleDisc /\ conns = EmptyMap /\ calls = <<>>

\* main() after step 2: discovery of DemoCatalog has returned, its connection is closed
DiscoveredClient ==
  /\ catalog = DemoCatalog
  /\ disc = [pc |-> "done", conn |-> 0,
             result |-> discover_loop(DemoCatalog, 1, ServerParams, EmptyAcc),
             returned |-> discover_loop(DemoCatalog, 1, ServerParams, EmptyAcc).langchain_tools]
  /\ conns = (0 :> [owner |-> 0, transport |-> "closed", session |-> "closed",
                     initialized |-> TRUE,
                     requests |-> <<[method |-> "initialize"], [method |-> "list_tools"]>>])
  /\ calls = <<>>

NextCalls ==
  Invoke \/ Connect \/ OpenSession \/ Initialize \/ CallTool \/ CallToolReturns \/ ExitContexts

-----------------------------------------------------------------------------
(* The lifespan example: FastMCP("My App", lifespan=app_lifespan) enters     *)
(* app_lifespan when the server starts, serves tool calls while the          *)
(* generator is suspended at its yield, and resumes it when serving ends.    *)

MaxRequests == 3

\* how serving may end
Endings == { "normal", "exception", "cancelled" }

\* A variant of connect that hands out the handle before the connection is made
Database_connect_lazy(dbs) == [dbs |-> Append(dbs, "created"), db |-> Len(dbs) + 1]

\* lines 33-35: Database.connect() gives a new handle
Database_connect(dbs) == [dbs |-> Append(dbs, "connected"), db |-> Len(dbs) + 1]

\* lines 37-39: db.disconnect()
Database_disconnect(dbs, db) == [dbs EXCEPT ![db] = "disconnected"]

\* lines 41-43: db.query()
Database_query(db) == "Query result"

\* A variant without try/finally: the cleanup follows the yield and runs only when
\* the generator is resumed normally
app_lifespan_cleanup_no_finally(how) == how = "normal"

\* lines 82-87: whether the generator, resumed at its yield because serving ended
\* in the given way, reaches db.disconnect(): the finally clause runs in every case
app_lifespan_cleanup(how) == how \in Endings

IdleLife ==
  life = [pc |-> "created", dbs |-> <<>>, ctx |-> [db |-> 0], connects |-> 0,
          disconnects |-> 0, end |-> "none", reqs |-> <<>>]

\* lines 81-83: the server starts: app_lifespan runs up to its yield
LifespanEnter ==
  /\ life.pc = "created"
  /\ LET c == Database_connect(life.dbs) IN
     life' = [life EXCEPT !.pc = "serving", !.dbs = c.dbs, !.ctx = [db |-> c.db],
                          !.connects = @ + 1]
  /\ UNCHANGED <<serverVars, built, boot, clientVars>>

\* a call of the query_db tool arrives
ReceiveRequest ==
  /\ life.pc = "serving"
  /\ Len(life.reqs) < MaxRequests
  /\ life' = [life EXCEPT !.reqs = Append(@, [state |-> "pending", db |-> 0, dbState |-> "none",
                                               result |-> "none"])]
  /\ UNCHANGED <<serverVars, built, boot, clientVars>>

\* lines 125-128: query_db(ctx)
QueryDb ==
  \E r \in 1..Len(life.reqs) :
    /\ life.pc = "serving"
    /\ life.reqs[r].state = "pending"
    /\ LET db == life.ctx.db IN
       life' = [life EXCEPT !.reqs[r] = [state |-> "answered", db |-> db, dbState |-> life.dbs[db],
                                         result |-> Database_query(db)]]
    /\ UNCHANGED <<serverVars, built, boot, clientVars>>

\* serving ends: normally, with an exception, or cancelled; calls not yet run are dropped
StopServing ==
  /\ life.pc = "serving"
  /\ \E how \in Endings :
       life' = [life EXCEPT !.pc = "exiting", !.end = how,
                  !.reqs = [r \in 1..Len(life.reqs) |->
                              IF life.reqs[r].state = "pending"
                              THEN [life.reqs[r] EXCEPT !.state = "dropped"] ELSE life.reqs[r]]]
  /\ UNCHANGED <<serverVars, built, boot, clientVars>>

\* lines 85-87: the generator is resumed and left
LifespanExit ==
  /\ life.pc = "exiting"
  /\ life' = IF app_lifespan_cleanup(life.end)
             THEN [life EXCEPT !.pc = "stopped",
                               !.dbs = Database_disconnect(life.dbs, life.ctx.db),
                               !.disconnects = @ + 1]
             ELSE [life EXCEPT !.pc = "stopped"]
  /\ UNCHANGED <<serverVars, built, boot, clientVars>>

NextLifespan == LifespanEnter \/ ReceiveRequest \/ QueryDb \/ StopServing \/ LifespanExit

-----------------------------------------------------------------------------
(* Start-up: the environment variables, main() of the client up to the end  *)
(* of its queries, and the load of the server module                        *)

\* values an environment variable may have at start-up; Absent: it is not set
ApiKeyValues == { Absent, PyStr(<<>>), PyStr(<<" ">>), PyStr(<<"k">>) }

Envs ==
  [ ANTHROPIC_API_KEY : ApiKeyValues,
    SPOTIFY_CLIENT_ID : { Absent, PyStr(<<"i">>) },
    SPOTIFY_CLIENT_SECRET : { Absent, PyStr(<<"s">>) } ]

\* os.getenv(name, default)
getenv(env, name, default) == IF env[name] = Absent THEN default ELSE env[name]

\* lines 62-72: MCPServerConfig(server_path=..., command=...); exists: os.path.exists(v)
MCPServerConfig(server_path, command, exists) ==
  IF exists
  THEN [ok |-> TRUE, obj |-> [server_path |-> server_path, command |-> command]]
  ELSE [ok |-> FALSE, errors |-> {"Server path does not exist: "}]

\* A variant of LLMConfig without the checks of api_key
LLMConfig_unchecked(provider, model_name, temperature, api_key) ==
  [ok |-> TRUE, obj |-> [provider |-> provider, model_name |-> model_name,
                         temperature |-> temperature, api_key |-> api_key.v]]

\* lines 47-59: LLMConfig(provider=..., model_name=..., temperature=..., api_key=...);
\* temperature in thousandths. min_length=1 is checked first, validate_api_key only
\* on a value that passed it
LLMConfig(provider, model_name, temperature, api_key) ==
  LET errs ==
        (IF temperature < 0 \/ temperature > 2000
           THEN {"temperature"} ELSE {})
        \cup
        (IF api_key.t # "str" THEN {"Input should be a valid string"}
         ELSE IF Len(api_key.v) < 1 THEN {"String should have at least 1 character"}
         ELSE IF Len(api_key.v) = 0 \/ Strip(api_key.v) = <<>>
           THEN {"API key cannot be empty or whitespace"}
         ELSE {})
  IN IF errs = {}
     THEN [ok |-> TRUE, obj |-> [provider |-> provider, model_name |-> model_name,
                                 temperature |-> temperature, api_key |-> api_key.v]]
     ELSE [ok |-> FALSE, errors |-> errs]

\* lines 183-208: get_llm(config)
get_llm(config) ==
  IF config.provider = "anthropic"
  THEN Return([cls |-> "ChatAnthropic",
               model_name |-> IF Truthy(config.model_name) THEN config.model_name.v
                              ELSE CLit("claude-sonnet-4-5-20250929"),
               temperature |-> config.temperature, api_key |-> config.api_key])
  ELSE IF config.provider = "openai"
  THEN Return([cls |-> "ChatOpenAI",
               model_name |-> IF Truthy(config.model_name) THEN config.model_name.v
                              ELSE CLit("gpt-5-2025-08-07"),
               temperature |-> config.temperature, api_key |-> config.api_key])
  ELSE Raise(OtherException("ValueError", CLit("Unsupported provider: ")))

\* lines 436-440: the demonstration's queries
queries == << "search", "top_tracks", "playlist" >>

\* spotify_mcp_server.py lines 17-20: the arguments of SpotifyClientCredentials(...)
client_credentials_args(env) ==
  [client_id |-> getenv(env, "SPOTIFY_CLIENT_ID", PyNone),
   client_secret |-> getenv(env, "SPOTIFY_CLIENT_SECRET", PyNone)]

NotLoaded == [pc |-> "unloaded", args |-> [client_id |-> PyNone, client_secret |-> PyNone]]

\* discover_mcp_tools has run against a server that declares the given catalog
Discovered(c) ==
  [catalog |-> c,
   disc |-> [pc |-> "done", conn |-> 0,
             result |-> discover_loop(c, 1, ServerParams, EmptyAcc),
             returned |-> discover_loop(c, 1, ServerParams, EmptyAcc).langchain_tools],
   conns |-> (0 :> [owner |-> 0, transport |-> "closed", session |-> "closed",
                     initialized |-> TRUE,
                     requests |-> <<[method |-> "initialize"], [method |-> "list_tools"]>>])]

IdleBoot ==
  boot = [env |-> [ANTHROPIC_API_KEY |-> Absent, SPOTIFY_CLIENT_ID |-> Absent,
                   SPOTIFY_CLIENT_SECRET |-> Absent],
          path_exists |-> FALSE, pc |-> "none", step |-> "none", llm_config |-> PyNone,
          llm |-> PyNone, fatal |-> NoOutcome, answered |-> 0, errors |-> 0,
          llm_calls |-> 0, server |-> NotLoaded]

\* lines 474-477: except Exception as e, around the whole of main()
Fatal(b, step, e) == [b EXCEPT !.pc = "fatal", !.step = step, !.fatal = Raise(e)]

\* lines 393-399: step 1
MainServerConfig ==
  /\ boot.pc = "server_config"
  /\ LET r == MCPServerConfig(CLit("./example-client-spotify/spotify-mcp"), "uv", boot.path_exists)
     IN boot' = IF r.ok THEN [boot EXCEPT !.pc = "discover"]
                ELSE Fatal(boot, "server_config", ValidationError(r))
  /\ UNCHANGED <<serverVars, built, clientVars, life>>

\* lines 401-402: step 2, tools, server_params = await discover_mcp_tools(server_config)
MainDiscover ==
  /\ boot.pc = "discover"
  /\ \/ LET d == Discovered(DemoCatalog) IN
          /\ catalog' = d.catalog /\ disc' = d.disc /\ conns' = d.conns
          /\ boot' = [boot EXCEPT !.pc = "llm_config"]
     \/ \E e \in ClientErrors :
          /\ boot' = Fatal(boot, "discover", e)
          /\ UNCHANGED <<catalog, disc, conns>>
  /\ UNCHANGED <<serverVars, built, calls, life>>

\* lines 404-412: step 3
MainLLMConfig ==
  /\ boot.pc = "llm_config"
  /\ LET r == LLMConfig("anthropic", PyStr(CLit("claude-sonnet-4-5-20250929")), 700,
                        getenv(boot.env, "ANTHROPIC_API_KEY", PyStr(<<>>)))
     IN boot' = IF r.ok THEN [boot EXCEPT !.pc = "create_agent", !.llm_config = r.obj]
                ELSE Fatal(boot, "llm_config", ValidationError(r))
  /\ UNCHANGED <<serverVars, built, clientVars, life>>

\* lines 414-425: step 4, get_llm and create_agent
MainCreateAgent ==
  /\ boot.pc = "create_agent"
  /\ LET r == get_llm(boot.llm_config)
     IN boot' = IF r.kind = "return" THEN [boot EXCEPT !.pc = "queries", !.llm = r.value]
                ELSE Fatal(boot, "create_agent", r.exc)
  /\ UNCHANGED <<serverVars, built, clientVars, life>>

\* lines 442-468: step 5, one query: the agent calls the language model, which answers
\* or fails; a failure is printed and the loop goes on
MainQuery ==
  /\ boot.pc = "queries"
  /\ boot.answered + boot.errors < Len(queries)
  /\ \/ boot' = [boot EXCEPT !.llm_calls = @ + 1, !.answered = @ + 1]
     \/ boot' = [boot EXCEPT !.llm_calls = @ + 1, !.errors = @ + 1]
  /\ UNCHANGED <<serverVars, built, clientVars, life>>

\* lines 470-472
MainComplete ==
  /\ boot.pc = "queries"
  /\ boot.answered + boot.errors = Len(queries)
  /\ boot' = [boot EXCEPT !.pc = "complete"]
  /\ UNCHANGED <<serverVars, built, clientVars, life>>

\* spotify_mcp_server.py lines 14-21: the module is loaded; the values of the
\* environment go to SpotifyClientCredentials as they are. What the library does with
\* an absent value (reject it here, or fail at the first request) is the library's
\* choice, not the module's
ServerLoad ==
  /\ boot.server.pc = "unloaded"
  /\ LET a == client_credentials_args(boot.env) IN
       \/ boot' = [boot EXCEPT !.server = [pc |-> "loaded", args |-> a]]
       \/ /\ a.client_id = PyNone \/ a.client_secret = PyNone
          /\ boot' = [boot EXCEPT !.server = [pc |-> "raised", args |-> a]]
  /\ UNCHANGED <<serverVars, built, clientVars, life>>

NextStartup ==
  \/ MainServerConfig \/ MainDiscover \/ MainLLMConfig \/ MainCreateAgent
  \/ MainQuery \/ MainComplete \/ ServerLoad

NoResult == [ok |-> FALSE, errors |-> {}]

IdleResponse == built = [kw |-> [success |-> "absent", content |-> Absent, error |-> Absent],
                         state |-> "none", res |-> NoResult]

\* a caller is about to construct a response record from some keyword arguments
InitResponse ==
  /\ built \in [kw : ResponseInputs, state : {"pending"}, res : {NoResult}]
  /\ IdleServer /\ IdleClient /\ IdleLife /\ IdleBoot

Construct ==
  /\ built.state = "pending"
  /\ built' = [built EXCEPT !.state = "done", !.res = MCPToolResponse(built.kw)]
  /\ UNCHANGED <<serverVars, boot, clientVars, life>>

NextResponse == Construct

-----------------------------------------------------------------------------
(* Specifications: the three programs do not depend on one another at run   *)
(* time, so each is checked on its own, the others at rest.                 *)

Init == IdleServer /\ IdleResponse /\ IdleClient /\ IdleLife /\ IdleBoot

SpecServer == Init /\ [][NextServer]_vars

SpecResponse == InitResponse /\ [][NextResponse]_vars

SpecDiscover == Init /\ [][NextDiscover]_vars

InitCalls == IdleServer /\ IdleResponse /\ DiscoveredClient /\ IdleLife /\ IdleBoot

SpecCalls == InitCalls /\ [][NextCalls]_vars

SpecLifespan == Init /\ [][NextLifespan]_vars

\* the two programs are started in some environment
InitStartup ==
  /\ \E e \in Envs, x \in BOOLEAN :
       boot = [env |-> e, path_exists |-> x, pc |-> "server_config", step |-> "none",
               llm_config |-> PyNone, llm |-> PyNone, fatal |-> NoOutcome,
               answered |-> 0, errors |-> 0, llm_calls |-> 0, server |-> NotLoaded]
  /\ IdleServer /\ IdleResponse /\ IdleClient /\ IdleLife

SpecStartup == InitStartup /\ [][NextStartup]_vars

-----------------------------------------------------------------------------
(* Properties of the server *)

Invoked == op # "none"

SomeCallRaised == \E k \in 1..Len(apiLog) : apiLog[k].resp.kind = "raise"

\* the text an except clause of the server produces
IsErrorString(s) ==
  IsPrefix(Lit("Spotify API error: "), s) \/ IsPrefix(Lit("Unexpected error: "), s)

\* C1: whenever an outbound API call of a tool invocation raised (SpotifyException or
\* any other Exception), the invocation returns a string that contains "error", and
\* no exception reaches its caller.
C1_RaisedCallGivesErrorText ==
  (Invoked /\ SomeCallRaised) =>
     /\ ret.kind = "return"
     /\ Contains(ret.value, <<"e","r","r","o","r">>)

\* get_artist_info whose third call raises something that is no SpotifyException
C1_Witness ==
  /\ op = "get_artist_info"
  /\ Len(apiLog) = 3
  /\ apiLog[3].resp.kind = "raise"
  /\ apiLog[3].resp.exc.cls = "ConnectionError"
  /\ ret.kind = "return"
  /\ IsPrefix(Lit("Unexpected error: "), ret.value)

\* The result set of the first (querying) call of an operation: the item list the
\* operation reports on is there and has an item
HasResultSet(o, v) ==
  CASE o = "search_tracks" ->
         /\ v.t = "dict" /\ HasKey(v, "tracks") /\ v.v.tracks.t = "dict"
         /\ HasKey(v.v.tracks, "items") /\ Truthy(v.v.tracks.v.items)
    [] o = "get_artist_info" ->
         /\ v.t = "dict" /\ HasKey(v, "artists") /\ v.v.artists.t = "dict"
         /\ HasKey(v.v.artists, "items") /\ Truthy(v.v.artists.v.items)
    [] o = "get_audio_features" ->
         /\ v.t = "list" /\ Len(v.v) > 0 /\ Truthy(v.v[1])
    [] o = "get_recommendations" ->
         /\ v.t = "dict" /\ HasKey(v, "tracks") /\ Truthy(v.v.tracks)

NotFoundPrefix(o) ==
  CASE o = "search_tracks" -> Lit("No results found for track name: '")
    [] o = "get_artist_info" -> Lit("No artist found with name: '")
    [] o = "get_audio_features" -> Lit("No audio features found for track ID: '")
    [] o = "get_recommendations" -> Lit("No recommendations found for the given tracks")

EmptyResultSet ==
  /\ Invoked /\ Len(apiLog) >= 1
  /\ apiLog[1].resp.kind = "ok"
  /\ ~HasResultSet(op, apiLog[1].resp.value)

\* C2: when the API answers an operation's query with an empty or absent result set
\* (None, a mapping without the expected key, an empty item list), the operation
\* returns its non-empty not-found text: it does not raise, and it does not return
\* an error string.
C2_EmptyResultGivesNotFound ==
  EmptyResultSet =>
     /\ ret.kind = "return"
     /\ Len(ret.value) > 0
     /\ IsPrefix(NotFoundPrefix(op), ret.value)
     /\ ~IsErrorString(ret.value)

\* C4: search_tracks forwards min(limit, 50) and get_recommendations forwards
\* min(limit, 100) as the limit of the API call; the forwarded limit never exceeds
\* 50, respectively 100.
C4_LimitClamped ==
  /\ op = "search_tracks" =>
        /\ Len(apiLog) = 1
        /\ apiLog[1].args.limit = (IF args.limit > 50 THEN 50 ELSE args.limit)
        /\ apiLog[1].args.limit <= 50
  /\ op = "get_recommendations" =>
        /\ Len(apiLog) = 1
        /\ apiLog[1].args.limit = (IF args.limit > 100 THEN 100 ELSE args.limit)
        /\ apiLog[1].args.limit <= 100

\* search_tracks called with limit=1000 has asked the API for 50
C4_Witness ==
  /\ op = "search_tracks"
  /\ args.limit = 1000
  /\ apiLog[1].api = "search"
  /\ apiLog[1].args.limit = 50

\* the lines of a text, cut at its newline characters
LinesOf(s) ==
  LET nl == {i \in 1..Len(s) : s[i] = "\n"}
      cuts == nl \cup {0, Len(s) + 1}
      StartOf(k) == CHOOSE b \in cuts : b <= Len(s) /\ Cardinality({c \in cuts : c < b}) = k - 1
      EndOf(b) == CHOOSE e \in cuts : e > b /\ \A c \in cuts : c > b => e <= c
  IN [k \in 1..(Cardinality(nl) + 1) |-> SubSeq(s, StartOf(k) + 1, EndOf(StartOf(k)) - 1)]

\* the paragraphs of a text: its lines, grouped at the empty lines
RECURSIVE Paragraphs(_, _)
Paragraphs(lines, cur) ==
  IF Len(lines) = 0 THEN (IF Len(cur) = 0 THEN <<>> ELSE <<cur>>)
  ELSE IF Len(lines[1]) = 0
       THEN (IF Len(cur) = 0 THEN <<>> ELSE <<cur>>) \o Paragraphs(Tail(lines), <<>>)
       ELSE Paragraphs(Tail(lines), Append(cur, lines[1]))

ArtistNamesOf(item) == [i \in 1..Len(item.v.artists.v) |-> item.v.artists.v[i].v.name.v]

\* C9: when the API returns N >= 1 tracks, the text search_tracks returns begins with
\* "Found N tracks" and holds exactly N entries, numbered "1." to "N." in the order
\* of the API's items, each holding the track's name, its artists' names joined by
\* ", ", its album name, its id and its URI.
C9_TracksListed ==
  (op = "search_tracks" /\ apiLog[1].resp.kind = "ok"
     /\ HasResultSet("search_tracks", apiLog[1].resp.value)) =>
    LET items == apiLog[1].resp.value.v.tracks.v.items.v
        N == Len(items)
        paras == Paragraphs(LinesOf(ret.value), <<>>)
    IN /\ ret.kind = "return"
       /\ IsPrefix(Lit("Found ") \o IntToStr(N) \o <<" ","t","r","a","c","k","s">>, ret.value)
       /\ Len(paras) = N + 1
       /\ \A k \in 1..N :
            LET entry == Join(<<"\n">>, paras[k + 1]) IN
            /\ IsPrefix(IntToStr(k) \o <<".">>, entry)
            /\ Contains(paras[k + 1][1], items[k].v.name.v)
            /\ Contains(paras[k + 1][1], <<" ","b","y"," ">> \o Join(<<",", " ">>, ArtistNamesOf(items[k])))
            /\ Contains(entry, <<"A","l","b","u","m",":"," ">> \o items[k].v.album.v.name.v \o <<"\n">>)
            /\ Contains(entry, <<"I","D",":"," ">> \o items[k].v.id.v \o <<"\n">>)
            /\ Contains(entry, <<"U","R","I",":"," ">> \o items[k].v.uri.v \o <<"\n">>)

\* two tracks returned, the second with two artists
C9_Witness ==
  /\ op = "search_tracks"
  /\ apiLog[1].resp.kind = "ok"
  /\ HasResultSet("search_tracks", apiLog[1].resp.value)
  /\ Len(apiLog[1].resp.value.v.tracks.v.items.v) = 2
  /\ Len(apiLog[1].resp.value.v.tracks.v.items.v[2].v.artists.v) = 2
  /\ ret.kind = "return"
  /\ Contains(ret.value, <<"2","."," ">>)

\* C10 as stated: every invocation of a tool operation makes exactly one outbound call.
C10_ExactlyOneCall == Invoked => Len(apiLog) = 1

\* C10, amended: search_tracks and get_recommendations make exactly one outbound call
\* on every path; get_audio_features makes one call, and a second one (sp.track)
\* exactly when the first returned audio features; get_artist_info makes one call, a
\* second one (sp.artist) exactly when the search returned an artist, and a third one
\* (sp.artist_top_tracks) exactly when the second returned details.
C10_CallsPerOperation ==
  /\ op \in {"search_tracks", "get_recommendations"} => Len(apiLog) = 1
  /\ op = "get_audio_features" =>
        /\ Len(apiLog) \in {1, 2}
        /\ apiLog[1].api = "audio_features"
        /\ Len(apiLog) = 2 <=> (apiLog[1].resp.kind = "ok"
                                 /\ HasResultSet(op, apiLog[1].resp.value))
        /\ Len(apiLog) = 2 => apiLog[2].api = "track"
  /\ op = "get_artist_info" =>
        /\ Len(apiLog) \in {1, 2, 3}
        /\ apiLog[1].api = "search"
        /\ Len(apiLog) >= 2 <=> (apiLog[1].resp.kind = "ok"
                                  /\ HasResultSet(op, apiLog[1].resp.value))
        /\ Len(apiLog) >= 2 => apiLog[2].api = "artist"
        /\ Len(apiLog) = 3 <=> (Len(apiLog) >= 2 /\ apiLog[2].resp.kind = "ok"
                                 /\ Truthy(apiLog[2].resp.value))
        /\ Len(apiLog) = 3 => apiLog[3].api = "artist_top_tracks"

\* get_artist_info has made its three calls and returned the artist's report
C10_Witness ==
  /\ op = "get_artist_info"
  /\ Len(apiLog) = 3
  /\ apiLog[3].resp.kind = "ok"
  /\ ret.kind = "return"
  /\ IsPrefix(Lit("Artist: "), ret.value)

-----------------------------------------------------------------------------
(* Properties of the response record *)

Populated(x) == x # PyNone

\* C3: a response record exists only with exactly one of content and error populated,
\* as its success flag tells: content and no error when success is true, error and no
\* content when it is false.
C3_ExactlyOneOfContentError ==
  (built.state = "done" /\ built.res.ok) =>
     LET o == built.res.obj IN
     /\ o.success => (Populated(o.content) /\ ~Populated(o.error))
     /\ ~o.success => (Populated(o.error) /\ ~Populated(o.content))

-----------------------------------------------------------------------------
(* Properties of discovery *)

InTable(name) == \E p \in TOOL_SCHEMAS : p[1] = name

DiscoveryRan == disc.pc \in {"exit", "done"}

\* C5: whatever catalog the server declares, the tools discovery returns are exactly
\* the declared tools whose name is in TOOL_SCHEMAS, in the order of the catalog: a
\* tool absent from the table is left out, and every tool of the table is returned,
\* whether it is declared before or after an absent one.
C5_AbsentToolsSkippedOnly ==
  DiscoveryRan =>
    LET lt == disc.result.langchain_tools
        declared == [i \in 1..Len(catalog) |-> catalog[i].name]
    IN /\ [k \in 1..Len(lt) |-> lt[k].name] = SelectSeq(declared, InTable)
       /\ \A i \in 1..Len(catalog) :
            ~InTable(catalog[i].name) => \A k \in 1..Len(lt) : lt[k].name # catalog[i].name
       /\ \A i \in 1..Len(catalog) :
            InTable(catalog[i].name) =>
              \E k \in 1..Len(lt) : lt[k].name = catalog[i].name
                                     /\ lt[k].coroutine.tool_name = catalog[i].name

\* a tool of the table, then a well-named tool absent from it, then a tool of the table
C5_Witness ==
  /\ disc.pc = "done"
  /\ Len(catalog) = 3
  /\ InTable(catalog[1].name)
  /\ ~InTable(catalog[2].name) /\ tool_name_valid(catalog[2].name)
  /\ InTable(catalog[3].name)
  /\ Len(disc.returned) = 2
  /\ disc.returned[2].name = catalog[3].name

-----------------------------------------------------------------------------
(* Properties of the invocations *)

Entered(c) == c.pc \in {"session", "initialize", "call_tool", "awaiting", "exit"}
Left(c) == c.pc \in {"returned", "raised"}

\* C7: every invocation that gets past stdio_client holds a connection of its own,
\* opened by itself, that no other invocation and not discovery holds; when the
\* invocation has left call_mcp_tool (after a response with or without content, or an
\* exception in initialize, in the tool call or after it), the session and the
\* transport of that connection are closed; no connection is open whose invocation
\* has left.
C7_ConnectionPerInvocation ==
  /\ \A i \in 1..Len(calls) :
       LET c == calls[i] IN
       /\ Entered(c) =>
            /\ c.conn \in DOMAIN conns
            /\ conns[c.conn].owner = i
            /\ conns[c.conn].transport = "open"
       /\ (Left(c) /\ c.raisedAt \in {"none", "initialize", "call_tool", "process"}
             /\ c.response # NoOutcome) =>
            /\ c.conn \in DOMAIN conns
            /\ conns[c.conn].owner = i
            /\ conns[c.conn].transport = "closed"
            /\ conns[c.conn].session = "closed"
       /\ c.conn # -1 => c.conn # disc.conn
       /\ \A j \in 1..Len(calls) : (j # i /\ c.conn # -1) => calls[j].conn # c.conn
  /\ \A id \in DOMAIN conns :
       /\ Len(SelectSeq(conns[id].requests, LAMBDA q : q.method = "call_tool")) <= 1
       /\ (conns[id].owner >= 1 /\ Left(calls[conns[id].owner])) =>
             conns[id].transport = "closed"

\* the first invocation has left after an exception in initialize and its connection
\* is closed, while the second holds its own open connection
C7_Witness ==
  /\ Len(calls) = 2
  /\ calls[1].pc = "returned" /\ calls[1].raisedAt = "initialize"
  /\ conns[calls[1].conn].transport = "closed"
  /\ calls[2].pc = "call_tool"
  /\ calls[2].conn # calls[1].conn
  /\ conns[calls[2].conn].transport = "open"

-----------------------------------------------------------------------------
(* Properties of the lifespan *)

\* C8: the database is connected (once) before any request is served: every request
\* the server answers finds it connected; and once the server has stopped, however
\* serving ended (normally, with an exception, cancelled), the database has been
\* disconnected exactly once, and not before serving ended.
C8_ConnectedWhileServing ==
  /\ life.pc \in {"serving", "exiting", "stopped"} => life.connects = 1
  /\ Len(life.reqs) > 0 => life.connects = 1
  /\ \A r \in 1..Len(life.reqs) :
       life.reqs[r].state = "answered" =>
          /\ life.reqs[r].dbState = "connected"
          /\ life.reqs[r].db = life.ctx.db
  /\ life.pc \in {"created", "serving", "exiting"} => life.disconnects = 0
  /\ life.pc = "serving" => life.dbs[life.ctx.db] = "connected"
  /\ life.pc = "stopped" =>
       /\ life.end \in Endings
       /\ life.disconnects = 1
       /\ life.dbs[life.ctx.db] = "disconnected"

\* the server was cancelled after answering a request, and has stopped
C8_Witness ==
  /\ life.pc = "stopped"
  /\ life.end = "cancelled"
  /\ \E r \in 1..Len(life.reqs) : life.reqs[r].state = "answered"
  /\ life.disconnects = 1

-----------------------------------------------------------------------------
(* Properties of start-up *)

KeyValue == getenv(boot.env, "ANTHROPIC_API_KEY", PyStr(<<>>))
KeyMissing == boot.env.ANTHROPIC_API_KEY = Absent
ConfigStepDone == boot.pc \in {"create_agent", "queries", "complete"} \/ boot.step = "llm_config"

\* C11 as stated: with the language-model credential absent from the environment, the
\* construction of the configuration raises no validation error.
C11_NoLocalValidationError ==
  (KeyMissing /\ ConfigStepDone) => boot.fatal.kind # "raise"

\* C11, amended: with ANTHROPIC_API_KEY absent (or empty, or blank) the construction of
\* LLMConfig in main() raises a validation error, main() ends there, and no model is
\* built and no call to the language model is made; only a present, non-blank key
\* gets past the configuration. The server module validates nothing itself: it hands
\* the Spotify credentials of the environment to the library as they are, None for
\* an absent one.
C11_MissingKeyFailsLocally ==
  /\ (ConfigStepDone /\ (KeyMissing \/ KeyValue.v = <<>> \/ KeyValue.v = <<" ">>)) =>
        /\ boot.pc = "fatal"
        /\ boot.step = "llm_config"
        /\ boot.fatal.kind = "raise"
        /\ boot.fatal.exc.cls = "ValidationError"
        /\ boot.llm_config = PyNone
        /\ boot.llm = PyNone
        /\ boot.llm_calls = 0
  /\ boot.llm_calls > 0 =>
        /\ ~KeyMissing
        /\ boot.llm.api_key = boot.env.ANTHROPIC_API_KEY.v
        /\ \E i \in 1..Len(boot.llm.api_key) : boot.llm.api_key[i] # " "
  /\ boot.server.pc # "unloaded" =>
        /\ boot.server.args.client_id =
             (IF boot.env.SPOTIFY_CLIENT_ID = Absent THEN PyNone ELSE boot.env.SPOTIFY_CLIENT_ID)
        /\ boot.server.args.client_secret =
             (IF boot.env.SPOTIFY_CLIENT_SECRET = Absent THEN PyNone
              ELSE boot.env.SPOTIFY_CLIENT_SECRET)

\* main() has ended at the construction of LLMConfig for want of the key, after a
\* successful discovery; the server module was loaded without its credentials
C11_Witness ==
  /\ KeyMissing
  /\ boot.pc = "fatal"
  /\ boot.step = "llm_config"
  /\ boot.fatal.exc.cls = "ValidationError"
  /\ disc.pc = "done"
  /\ boot.server.pc = "loaded"
  /\ boot.server.args.client_id = PyNone

-----------------------------------------------------------------------------
(* Properties of discovery, continued *)

NameChars == AlnumChars \cup {"_", "-"}

\* the names the shape check is said to refuse: empty, or with a character that is
\* no alphanumeric, underscore or hyphen
BadShape(name) == Len(name) = 0 \/ \E k \in 1..Len(name) : name[k] \notin NameChars

\* the names that pass MCPToolSchema: made of name characters, one of them alphanumeric
PassesNameCheck(name) ==
  /\ \A k \in 1..Len(name) : name[k] \in NameChars
  /\ \E k \in 1..Len(name) : name[k] \in AlnumChars

SchemaOf(name) == (CHOOSE p \in TOOL_SCHEMAS : p[1] = name)[2]

InSeq(x, s) == \E k \in 1..Len(s) : s[k] = x

\* C12: discovery checks every declared tool in two stages. A tool whose name is
\* empty or holds a character other than alphanumerics, underscores and hyphens is
\* skipped in stage one and its name is never looked up in TOOL_SCHEMAS; the loop goes
\* on to the next tool, so every declared tool is handled; the returned list is
\* exactly the declared tools that pass the name check and have an entry in
\* TOOL_SCHEMAS, in the declared order, each with the schema of its entry.
C12_TwoStageValidation ==
  DiscoveryRan =>
    LET r == disc.result
        lt == r.langchain_tools
        idx == 1..Len(catalog)
        kept == SelectSeq([i \in idx |-> catalog[i]],
                          LAMBDA t : PassesNameCheck(t.name) /\ InTable(t.name))
    IN /\ \A i \in idx :
            BadShape(catalog[i].name) =>
               /\ InSeq(i, r.invalid)
               /\ ~InSeq(catalog[i].name, r.lookups)
               /\ \A k \in 1..Len(lt) : lt[k].name # catalog[i].name
       /\ \A i \in idx : InSeq(i, r.invalid) \/ InSeq(i, r.no_schema) \/ InSeq(i, r.from)
       /\ Len(r.invalid) + Len(r.no_schema) + Len(r.from) = Len(catalog)
       /\ \A i \in idx : InSeq(i, r.invalid) <=> ~PassesNameCheck(catalog[i].name)
       /\ Len(lt) = Len(kept)
       /\ \A k \in 1..Len(lt) :
            /\ lt[k].name = kept[k].name
            /\ lt[k].args_schema = SchemaOf(kept[k].name)
            /\ lt[k].coroutine.tool_name = kept[k].name

\* an ill-named tool is declared first, then a tool of the table, then a well-named
\* tool without an entry: the first was skipped unlooked, the second is returned
C12_Witness ==
  /\ disc.pc = "done"
  /\ Len(catalog) = 3
  /\ BadShape(catalog[1].name) /\ Len(catalog[1].name) > 0
  /\ InTable(catalog[2].name)
  /\ PassesNameCheck(catalog[3].name) /\ ~InTable(catalog[3].name)
  /\ disc.result.invalid = <<1>>
  /\ disc.result.no_schema = <<3>>
  /\ Len(disc.returned) = 1
  /\ disc.returned[1].name = catalog[2].name

-----------------------------------------------------------------------------
(* Properties of the invocations, continued *)

CallConns == {id \in DOMAIN conns : conns[id].owner >= 1}

Awaiting(id) == {i \in 1..Len(calls) : calls[i].pc = "awaiting" /\ calls[i].conn = id}

OneCallPerConnection ==
  /\ \A id \in CallConns :
       LET rq == conns[id].requests
           c == calls[conns[id].owner]
       IN /\ Cardinality(Awaiting(id)) <= 1
          /\ Len(rq) <= 2
          /\ Len(rq) >= 1 => rq[1] = [method |-> "initialize"]
          /\ Len(rq) = 2 => rq[2] = [method |-> "call_tool", name |-> c.tool_call.tool_name,
                                     arguments |-> c.tool_call.arguments]
          /\ c.conn = id
          /\ c.pc \in {"session", "initialize"} => rq = <<>>
          /\ c.pc = "call_tool" => Len(rq) = 1
          /\ c.pc = "awaiting" => Len(rq) = 2
          /\ Left(c) => Len(rq) >= 1
  /\ \A i, j \in 1..Len(calls) :
       (i # j /\ calls[i].conn # -1) => calls[i].conn # calls[j].conn

\* a step of one invocation changes that invocation's record and its own connection
\* and nothing else
StepsAreLocal ==
  /\ catalog' = catalog /\ disc' = disc
  /\ Len(calls') >= Len(calls)
  /\ Len(calls') > Len(calls) =>
        /\ conns' = conns
        /\ \A j \in 1..Len(calls) : calls'[j] = calls[j]
  /\ \A i \in 1..Len(calls) :
        calls'[i] # calls[i] =>
          /\ \A j \in 1..Len(calls) : j # i => calls'[j] = calls[j]
          /\ \A id \in DOMAIN conns' :
               (id \notin DOMAIN conns \/ conns'[id] # conns[id]) => id = calls'[i].conn
  /\ \A id \in DOMAIN conns : id \in DOMAIN conns'

\* C13: on every connection opened by call_mcp_tool there is one initialize request,
\* followed by at most one call_tool request, the one of the invocation that opened
\* it, so at most one tool call is outstanding on a connection; when invocations
\* interleave, each works on its own connection, and a step of one invocation changes
\* nothing that another invocation or discovery holds.
C13_SingleOutstandingCall == []OneCallPerConnection /\ [][StepsAreLocal]_vars

\* two invocations wait for their answers at the same time, each on its own connection
C13_Witness ==
  /\ Len(calls) = 2
  /\ calls[1].pc = "awaiting" /\ calls[2].pc = "awaiting"
  /\ calls[1].conn # calls[2].conn
  /\ Len(conns[calls[1].conn].requests) = 2
  /\ Len(conns[calls[2].conn].requests) = 2

-----------------------------------------------------------------------------
(* Properties of the lifespan, continued *)

Answered == {r \in 1..Len(life.reqs) : life.reqs[r].state = "answered"}

\* C14: every query_db call the server answers reached, through its context, the
\* one database handle that app_lifespan connected at start-up, and found it
\* connected: no call is answered before the handle is connected or after it is
\* disconnected, and no call sees another handle.
C14_HandleReachableWhileRunning ==
  /\ Len(life.dbs) <= 1
  /\ Len(life.reqs) > 0 => (Len(life.dbs) = 1 /\ life.ctx.db = 1)
  /\ \A r \in Answered :
       /\ life.reqs[r].db = 1
       /\ life.reqs[r].db = life.ctx.db
       /\ life.reqs[r].dbState = "connected"
       /\ life.reqs[r].result = "Query result"
  /\ \A r \in 1..Len(life.reqs) :
       life.reqs[r].state # "answered" => life.reqs[r].dbState = "none"
  /\ life.pc \in {"exiting", "stopped"} =>
       \A r \in 1..Len(life.reqs) : life.reqs[r].state \in {"answered", "dropped"}

\* two calls were answered while the server ran, a third was dropped when it stopped
C14_Witness ==
  /\ Len(life.reqs) = 3
  /\ Cardinality(Answered) = 2
  /\ life.reqs[3].state = "dropped"
  /\ life.pc = "stopped"
  /\ life.dbs[life.ctx.db] = "disconnected"

-----------------------------------------------------------------------------
(* Properties of call_mcp_tool *)

\* the invocation has left call_mcp_tool after stdio_client, initialize or call_tool raised
LeftAfterException(c) ==
  Left(c) /\ c.raisedAt \in {"connect", "initialize", "call_tool"}

\* C15: call_mcp_tool never raises: whatever exception is raised while connecting,
\* initializing or calling the tool, an exception with an empty text included, it
\* returns a response record with success=False and the exception's text as error.
C15_NeverRaises ==
  \A i \in 1..Len(calls) :
    LeftAfterException(calls[i]) =>
      /\ calls[i].response.kind = "return"
      /\ ~calls[i].response.value.success
      /\ calls[i].response.value.error = PyStr(calls[i].pending.exc.text)

FirstItem(c) == c.result.v[1]

BinaryPlaceholder(s) ==
  /\ IsPrefix(<<"[","B","i","n","a","r","y"," ","c","o","n","t","e","n","t",":"," ">>, s)
  /\ s[Len(s)] = "]"

\* C16: when the tool call returns a non-empty content list, the response has
\* success=True and its content depends on the kind of the first item: the item's
\* text for a text item, the placeholder "[Binary content: <type name>]" for an item
\* that carries data, the item's string form for any other item.
C16_ContentBranching ==
  \A i \in 1..Len(calls) :
    (Left(calls[i]) /\ calls[i].raisedAt \in {"none", "process"} /\ Truthy(calls[i].result)) =>
      LET item == FirstItem(calls[i])
          resp == calls[i].response
      IN /\ resp.kind = "return"
         /\ resp.value.success
         /\ item.type = "text" => resp.value.content = PyStr(item.text)
         /\ item.type = "image" => BinaryPlaceholder(resp.value.content.v)
         /\ item.type = "resource" => resp.value.content = PyStr(StrOf(item))

\* C17: every response record call_mcp_tool returns has, with success=True, a
\* non-empty content and no error, and with success=False a non-empty error and no
\* content; a tool result without content items gives success=False with the error
\* "No content in response".
C17_ReturnedResponsesWellFormed ==
  \A i \in 1..Len(calls) :
    LET c == calls[i] IN
    /\ (Left(c) /\ c.response.kind = "return") =>
         LET o == c.response.value IN
         /\ o.success => (o.content.t = "str" /\ Len(o.content.v) > 0 /\ o.error = PyNone)
         /\ ~o.success => (o.error.t = "str" /\ Len(o.error.v) > 0 /\ o.content = PyNone)
    /\ (Left(c) /\ c.raisedAt = "none" /\ c.result = PyList(<<>>)) =>
         /\ c.response.kind = "return"
         /\ ~c.response.value.success
         /\ c.response.value.error.v =
              <<"N","o"," ","c","o","n","t","e","n","t"," ","i","n"," ","r","e","s","p","o","n","s","e">>
         /\ c.response.value.content = PyNone

\* three kinds of record have been returned: one for a result without content items,
\* one for an exception with a text, one with a content
C17_Witness ==
  \E i, j \in 1..Len(calls) :
    /\ Left(calls[i]) /\ calls[i].raisedAt = "none" /\ calls[i].result = PyList(<<>>)
    /\ calls[i].response.kind = "return"
    /\ Left(calls[j]) /\ calls[j].response.kind = "return"
    /\ calls[j].response.value.success
    /\ calls[j].response.value.content.t = "str"

-----------------------------------------------------------------------------
(* Properties of the server, continued *)

\* C18: get_recommendations with the empty seed string returns "Please provide at
\* least one track ID" and makes no call to the API; with any other seed string it
\* forwards at most the first 5 comma-separated ids, stripped, in their order.
C18_SeedsParsed ==
  op = "get_recommendations" =>
    /\ args.seed_track_ids = <<>> =>
         /\ Len(apiLog) = 0
         /\ ret = Return(Lit("Please provide at least one track ID"))
    /\ args.seed_track_ids # <<>> =>
         LET parts == Split(args.seed_track_ids, ",")
             n == IF Len(parts) > 5 THEN 5 ELSE Len(parts)
         IN /\ Len(apiLog) = 1
            /\ apiLog[1].args.seed_tracks = [k \in 1..n |-> Strip(parts[k])]
            /\ Len(apiLog[1].args.seed_tracks) <= 5
====
